---- MODULE Spec2Model ----
(***************************************************************************)
(* Model of the ai-sessions MCP server: the search index store             *)
(* (search/cache.go, search/bm25.go, search/schema.sql) and the lazy       *)
(* indexing loop of the search_sessions tool (cmd/ai-sessions/main.go)     *)
(* over the session artifacts the adapters list (adapters/*.go).           *)
(*                                                                         *)
(* Strings are sequences of one-character strings, so that Tokenize and    *)
(* the content builder compute on characters as the Go code does.          *)
(* Modification times are counted in ticks; there are TicksPerSecond ticks *)
(* in a second and ModTime().Unix() truncates to whole seconds.            *)
(* BM25 scores are fixed-point (micro-units) with a table of natural       *)
(* logarithms; NaN is carried explicitly.                                  *)
(* Columns and fields no modelled operation reads (timestamp,              *)
(* last_indexed, user_message_count, snippets) are left out.               *)
(***************************************************************************)
EXTENDS Integers, Sequences, FiniteSets, TLC

(***************************************************************************)
(* Bounds of the model.                                                    *)
(***************************************************************************)
MaxCalls == 2

MaxTouch == 1

MaxMtime == 2

MaxVer == 1

TicksPerSecond == 2

\* the greatest page number and page size a call asks for
MaxPage == 3

MaxPageSize == 3

MaxListLimit == 3

\* the greatest number of user messages in a Codex log
MaxLogLen == 2

\* the greatest length (in runes) of a content GetSnippet is given, and the
\* greatest maxLength
MaxContentLen == 4

MaxSnippetLen == 2

\* the greatest length (in runes) of a text given to Tokenize
MaxTextLen == 4

\* the greatest timestamp of a session in the merge of the lists (0 is the
\* zero time of a session without a timestamp)
MaxStamp == 1

(***************************************************************************)
(* Program constants.                                                      *)
(***************************************************************************)
\* bm25.go: k1 = 1.5 = K1Num / K1Den
K1Num == 3

K1Den == 2

\* bm25.go: b = 0.75 = BNum / BDen
BNum == 3

BDen == 4

\* main.go: default limit of search_sessions
DefaultLimit == 10

\* get_session: the page size when none is given
DefaultPageSize == 20

\* indexSessions: the page size that asks for all the messages
AllMessages == 100000

\* codex.go extractFirstLine: a first line longer than this is cut
FirstLineMax == 200

\* cache.go GetSnippet: the maxLength used for 0, and the reach of the
\* search for a word boundary
DefaultSnippetLen == 300

BoundaryReach == 50

\* fixed-point scale of the logarithm table (milli) and of tfNorm
LnScale == 1000

(***************************************************************************)
(* Generic helpers.                                                        *)
(***************************************************************************)
Range(s) == { s[i] : i \in 1..Len(s) }

RECURSIVE SumSeq(_)
SumSeq(s) == IF s = <<>> THEN 0 ELSE Head(s) + SumSeq(Tail(s))

RECURSIVE SumOver(_, _)
SumOver(S, f) ==
    IF S = {} THEN 0
    ELSE LET x == CHOOSE y \in S : TRUE IN f[x] + SumOver(S \ {x}, f)

Perms(S) ==
    { p \in [1..Cardinality(S) -> S] :
        \A i, j \in 1..Cardinality(S) : i # j => p[i] # p[j] }

None == "none"

(***************************************************************************)
(* Characters.  A rune is a one-element string; E_ACUTE / e_acute stand    *)
(* for a non-ASCII letter that takes two bytes in UTF-8.                   *)
(***************************************************************************)
UpperRunes == {"A", "C", "D", "E", "G", "I", "U", "E_ACUTE", "K_SIGN"}

LowerRunes == {"a", "b", "c", "d", "e", "g", "h", "i", "k", "m", "n", "o", "r", "s", "t",
               "u", "v", "x", "y", "e_acute"}

DigitRunes == {"1", "2"}

TwoByteRunes == {"E_ACUTE", "e_acute"}

\* the length of a rune in UTF-8.  K_SIGN is the Kelvin sign U+212A: a
\* letter of three bytes whose lower case is the one-byte "k"
RuneLen(r) == IF r = "K_SIGN" THEN 3 ELSE IF r \in TwoByteRunes THEN 2 ELSE 1

\* strings.ToLower, rune by rune
ToLowerRune(r) ==
    CASE r = "A" -> "a"
      [] r = "D" -> "d"
      [] r = "G" -> "g"
      [] r = "E_ACUTE" -> "e_acute"
      [] r = "C" -> "c"
      [] r = "E" -> "e"
      [] r = "I" -> "i"
      [] r = "U" -> "u"
      [] r = "K_SIGN" -> "k"
      [] OTHER -> r

ToLower(text) == [i \in 1..Len(text) |-> ToLowerRune(text[i])]

\* unicode.IsLetter(r) || unicode.IsDigit(r)
IsLetterOrDigit(r) == r \in UpperRunes \cup LowerRunes \cup DigitRunes

\* len(token): the length of a Go string in bytes
ByteLen(token) ==
    SumSeq([i \in 1..Len(token) |-> RuneLen(token[i])])

(***************************************************************************)
(* search/bm25.go: Tokenize and TermFrequency.                             *)
(***************************************************************************)
RECURSIVE TokenizeFrom(_, _, _, _)
TokenizeFrom(text, i, current, tokens) ==
    IF i > Len(text)
    THEN IF Len(current) > 0 /\ ByteLen(current) > 1
         THEN Append(tokens, current) ELSE tokens
    ELSE IF IsLetterOrDigit(text[i])
         THEN TokenizeFrom(text, i + 1, Append(current, text[i]), tokens)
         ELSE TokenizeFrom(text, i + 1, <<>>,
                  IF Len(current) > 0 /\ ByteLen(current) > 1
                  THEN Append(tokens, current) ELSE tokens)

Tokenize(text) == TokenizeFrom(ToLower(text), 1, <<>>, <<>>)

TermFrequency(tokens) ==
    [t \in Range(tokens) |-> Cardinality({ i \in 1..Len(tokens) : tokens[i] = t })]

(***************************************************************************)
(* search/bm25.go: BM25Scorer.Score, in fixed point.  A score is           *)
(* [nan, v]: v counts millionths, nan is the IEEE not-a-number.            *)
(***************************************************************************)
LnTable == <<0, 693, 1099, 1386, 1609, 1792, 1946, 2079, 2197, 2303,
             2398, 2485, 2565, 2639, 2708, 2773, 2833, 2890, 2944, 2996>>

\* math.Log(n) * LnScale for an integer n in 1..20
LnMilli(n) == LnTable[n]

NaN == [nan |-> TRUE, v |-> 0]

Num(v) == [nan |-> FALSE, v |-> v]

\* a > b on float64: false as soon as one side is NaN
Greater(a, b) == ~a.nan /\ ~b.nan /\ a.v > b.v

GreaterEq(a, b) == ~a.nan /\ ~b.nan /\ a.v >= b.v

Add(a, b) == IF a.nan \/ b.nan THEN NaN ELSE Num(a.v + b.v)

\* idf := math.Log((N - df + 0.5) / (df + 0.5)), in milli-nats
Idf(totalDocs, df) ==
    IF 2 * totalDocs - 2 * df + 1 <= 0 THEN NaN
    ELSE Num(LnMilli(2 * totalDocs - 2 * df + 1) - LnMilli(2 * df + 1))

\* idf * tf*(k1+1) / (tf + k1*(1 - b + b*docLength/avgDocLength)),
\* avgDocLength = avg.num / avg.den
TermScore(tf, df, docLength, avg, totalDocs) ==
    LET idf == Idf(totalDocs, df)
        d   == tf * K1Den * BDen * avg.num
               + K1Num * ((BDen - BNum) * avg.num + BNum * docLength * avg.den)
        n   == tf * (K1Num + K1Den) * BDen * avg.num
    IN  IF idf.nan \/ d = 0 THEN NaN
        ELSE Num((idf.v * n * LnScale) \div d)

RECURSIVE ScoreFrom(_, _, _, _, _, _, _)
ScoreFrom(queryTerms, i, termFreqs, docLength, docFreqs, avg, totalDocs) ==
    IF i > Len(queryTerms) THEN Num(0)
    ELSE LET term == queryTerms[i]
             tf   == IF term \in DOMAIN termFreqs THEN termFreqs[term] ELSE 0
             df   == IF term \in DOMAIN docFreqs THEN docFreqs[term] ELSE 0
             rest == ScoreFrom(queryTerms, i + 1, termFreqs, docLength,
                               docFreqs, avg, totalDocs)
         IN  IF tf = 0 \/ df = 0 THEN rest
             ELSE Add(TermScore(tf, df, docLength, avg, totalDocs), rest)

Score(queryTerms, termFreqs, docLength, docFreqs, avg, totalDocs) ==
    ScoreFrom(queryTerms, 1, termFreqs, docLength, docFreqs, avg, totalDocs)

(***************************************************************************)
(* The session artifacts on disk and the adapters that read them.          *)
(***************************************************************************)
Space == <<" ">>

P_p == <<"/", "p">>

P_q == <<"/", "q">>

\* the registered adapters (main.go: adaptersMap)
Adapters == {"claude", "codex"}

Files == {"F1", "F2", "F3", "F4"}

\* the files that exist when the server starts with an empty index
StartFiles == {"F1", "F2", "F3"}

\* F1 and F2 carry the same session id in two different sources; F4 is a
\* second, newer session of the claude adapter
Artifact ==
    [f \in Files |->
        CASE f = "F1" -> [source |-> "claude", id |-> "x", project |-> P_p, timestamp |-> 1]
          [] f = "F2" -> [source |-> "codex",  id |-> "x", project |-> P_q, timestamp |-> 2]
          [] f = "F3" -> [source |-> "codex",  id |-> "y", project |-> P_p, timestamp |-> 3]
          [] f = "F4" -> [source |-> "claude", id |-> "z", project |-> P_p, timestamp |-> 4]]

SessionIds == { Artifact[f].id : f \in Files }

\* the message contents of an artifact at a content version
FileMessages(f, ver) ==
    CASE f = "F1" /\ ver = 0 -> << <<"G","o"," ","d","b">> >>
      [] f = "F1"            -> << <<"G","o"," ","d","b">>, <<"a","i","!"," ","g","o">> >>
      [] f = "F2" /\ ver = 0 -> << <<"d","b"," ","D","B","!">> >>
      [] f = "F2"            -> << <<"a","i">> >>
      [] f = "F3" /\ ver = 0 -> << <<"g","o"," ","x"," ","a","i">>, <<"d","b">> >>
      [] f = "F4"            -> << <<"d","b">> >>
      [] OTHER               -> << <<"d","b","1">>, <<"g","o">>, <<"a","i">> >>

\* first_message: the first message of the log
FirstMessage(f, ver) == FileMessages(f, ver)[1]

\* claude.go projectDirName: every "/" becomes "-"
projectDirName(path) == [i \in 1..Len(path) |-> IF path[i] = "/" THEN "-" ELSE path[i]]

\* claude.go listAllSessions: ReplaceAll(dir, "-", "/") then TrimPrefix "/"
DecodeProjectDir(dir) ==
    LET replaced == [i \in 1..Len(dir) |-> IF dir[i] = "-" THEN "/" ELSE dir[i]]
    IN  IF Len(replaced) > 0 /\ replaced[1] = "/" THEN Tail(replaced) ELSE replaced

\* the ProjectPath an adapter puts in a listed Session
ListedProjectPath(f, projectPath) ==
    IF Artifact[f].source = "claude"
    THEN IF projectPath = <<>>
         THEN DecodeProjectDir(projectDirName(Artifact[f].project))
         ELSE projectPath
    ELSE IF projectPath = <<>> THEN Artifact[f].project ELSE projectPath

\* the artifacts an adapter visits for a project path ("" = all projects)
ListedFiles(adapter, projectPath, disk) ==
    { f \in Files : /\ Artifact[f].source = adapter
                    /\ disk[f].exists
                    /\ (projectPath = <<>> \/ Artifact[f].project = projectPath) }

\* the Session the adapter builds for an artifact
ListedSession(f, projectPath, disk) ==
    [id            |-> Artifact[f].id,
     source        |-> Artifact[f].source,
     project_path  |-> ListedProjectPath(f, projectPath),
     file_path     |-> f,
     timestamp     |-> Artifact[f].timestamp,
     first_message |-> FirstMessage(f, disk[f].ver),
     summary       |-> <<>>]

\* adapter.ListSessions(projectPath, 0): the sessions, newest first (the
\* artifacts of the model have distinct timestamps)
ListSessions(adapter, projectPath, disk) ==
    LET p == CHOOSE q \in Perms(ListedFiles(adapter, projectPath, disk)) :
                 \A i, j \in 1..Len(q) :
                     i < j => Artifact[q[i]].timestamp > Artifact[q[j]].timestamp
    IN  [i \in 1..Len(p) |-> ListedSession(p[i], projectPath, disk)]

\* a faulty variant: the limit is applied to the files as they are found
\* (oldest first), before the sort
ListSessionsLimitBeforeSort(adapter, projectPath, limit, disk) ==
    LET all == ListSessions(adapter, projectPath, disk)
        n   == Len(all)
    IN  IF limit > 0 /\ n > limit THEN SubSeq(all, n - limit + 1, n) ELSE all

\* adapter.ListSessions(projectPath, limit): sort newest first, then
\*   if limit > 0 && len(sessions) > limit { sessions = sessions[:limit] }
\* codex.go listAllSessions (no project path) sorts and applies no limit.
ListSessionsLimit(adapter, projectPath, limit, disk) ==
    LET all == ListSessions(adapter, projectPath, disk)
    IN  IF adapter = "codex" /\ projectPath = <<>>
        THEN all
        ELSE IF limit > 0 /\ Len(all) > limit THEN SubSeq(all, 1, limit) ELSE all

\* sort.Slice(allSessions, Timestamp.After): newest first
SortByTimestamp(sessions) ==
    CHOOSE q \in Perms(sessions) :
        \A i, j \in 1..Len(q) : i < j => q[i].timestamp >= q[j].timestamp

\* the handler of list_sessions: [err, sessions].  The limit 0 becomes 10,
\* an unknown source is an error, every selected adapter is asked with the
\* limit, the answers are merged, sorted newest first and cut to the limit.
ListSessionsTool(source, projectPath, limit, disk) ==
    LET L      == IF limit = 0 THEN DefaultLimit ELSE limit
        a      == IF source = "" THEN Adapters ELSE {source}
        merged == UNION { Range(ListSessionsLimit(x, projectPath, L, disk)) : x \in a }
        sorted == SortByTimestamp(merged)
    IN  IF source # "" /\ source \notin Adapters
        THEN [err |-> TRUE, sessions |-> <<>>]
        ELSE [err |-> FALSE,
              sessions |-> IF L > 0 /\ Len(sorted) > L THEN SubSeq(sorted, 1, L) ELSE sorted]

\* a faulty variant: the end of the page is taken as inclusive
PaginateInclusiveEnd(messages, page, pageSize) ==
    LET n     == Len(messages)
        start == page * pageSize
        end   == IF start + pageSize >= n THEN n ELSE start + pageSize + 1
    IN  IF start >= n THEN [crashed |-> FALSE, messages |-> <<>>]
        ELSE IF start < 0 \/ end < start THEN [crashed |-> TRUE, messages |-> <<>>]
        ELSE [crashed |-> FALSE, messages |-> SubSeq(messages, start + 1, end)]

\* the pagination at the end of every adapter's GetSession:
\*   start := page * pageSize; if start >= len(messages) { return empty }
\*   end := start + pageSize;  if end > len(messages) { end = len(messages) }
\*   return messages[start:end]
\* The slice expression panics when start < 0 or end < start.
Paginate(messages, page, pageSize) ==
    LET n     == Len(messages)
        start == page * pageSize
        end   == IF start + pageSize > n THEN n ELSE start + pageSize
    IN  IF start >= n THEN [crashed |-> FALSE, messages |-> <<>>]
        ELSE IF start < 0 \/ end < start THEN [crashed |-> TRUE, messages |-> <<>>]
        ELSE [crashed |-> FALSE, messages |-> SubSeq(messages, start + 1, end)]

\* a faulty variant: the session file is looked up in every adapter's store
GetSessionPageAnyAdapter(adapter, id, page, pageSize, disk) ==
    LET found == { f \in Files : Artifact[f].id = id /\ disk[f].exists }
    IN  IF found = {}
        THEN [err |-> TRUE, crashed |-> FALSE, messages |-> <<>>]
        ELSE LET f == CHOOSE g \in found : TRUE
                 p == Paginate(FileMessages(f, disk[f].ver), page, pageSize)
             IN  [err |-> FALSE, crashed |-> p.crashed, messages |-> p.messages]

\* adapter.GetSession(id, page, pageSize): not-found when no artifact of
\* the adapter carries the id, else the page of its messages
GetSessionPage(adapter, id, page, pageSize, disk) ==
    LET found == { f \in Files : /\ Artifact[f].source = adapter
                                 /\ Artifact[f].id = id
                                 /\ disk[f].exists }
    IN  IF found = {}
        THEN [err |-> TRUE, crashed |-> FALSE, messages |-> <<>>]
        ELSE LET f == CHOOSE g \in found : TRUE
                 p == Paginate(FileMessages(f, disk[f].ver), page, pageSize)
             IN  [err |-> FALSE, crashed |-> p.crashed, messages |-> p.messages]

\* adapter.GetSession(id, 0, 100000): not-found when no artifact of the
\* adapter carries the id, else all the messages
GetSession(adapter, id, disk) ==
    LET g == GetSessionPage(adapter, id, 0, AllMessages, disk)
    IN  [err |-> g.err, messages |-> g.messages]

\* the handler of get_session: [err, crashed, messages]
GetSessionTool(sessionID, source, page, pageSize, disk) ==
    IF sessionID = "" \/ source = "" \/ source \notin Adapters
    THEN [err |-> TRUE, crashed |-> FALSE, messages |-> <<>>]
    ELSE GetSessionPage(source, sessionID, page,
                        IF pageSize = 0 THEN DefaultPageSize ELSE pageSize, disk)

\* main.go indexSessions: first_message + " " + summary + (" " + content)*
RECURSIVE JoinMessages(_)
JoinMessages(messages) ==
    IF messages = <<>> THEN <<>>
    ELSE Space \o Head(messages) \o JoinMessages(Tail(messages))

BuildContent(session, messages) ==
    session.first_message \o Space \o session.summary \o JoinMessages(messages)

\* fileInfo.ModTime().Unix()
Unix(mtime) == mtime \div TicksPerSecond

(***************************************************************************)
(* search/schema.sql and search/cache.go: the index database.              *)
(* A database value is                                                     *)
(*   sessions   : id -> row          (id is the PRIMARY KEY)               *)
(*   term_index : <<term, id>> -> term_frequency                           *)
(*   total_docs, avg_doc_length      (the two rows of search_stats)        *)
(* avg_doc_length is the quotient num / den of two integers.               *)
(***************************************************************************)
EmptyMap == [x \in {} |-> 0]

ZeroAvg == [num |-> 0, den |-> 1]

\* schema.sql: empty tables and the two default statistics
EmptyDb ==
    [sessions |-> EmptyMap, term_index |-> EmptyMap,
     total_docs |-> 0, avg_doc_length |-> ZeroAvg]

\* a faulty variant: a replaced row keeps the file_mtime it had
InsertOrReplaceKeepsMtime(d, session, mtimeUnix, docLength, content) ==
    [d EXCEPT !.sessions =
        (session.id :> [id            |-> session.id,
                        source        |-> session.source,
                        project_path  |-> session.project_path,
                        file_path     |-> session.file_path,
                        first_message |-> session.first_message,
                        summary       |-> session.summary,
                        file_mtime    |-> IF session.id \in DOMAIN d.sessions
                                          THEN d.sessions[session.id].file_mtime
                                          ELSE mtimeUnix,
                        doc_length    |-> docLength,
                        content       |-> content]) @@ d.sessions]

\* INSERT OR REPLACE INTO sessions (...) VALUES (...)
InsertOrReplaceSession(d, session, mtimeUnix, docLength, content) ==
    [d EXCEPT !.sessions =
        (session.id :> [id            |-> session.id,
                        source        |-> session.source,
                        project_path  |-> session.project_path,
                        file_path     |-> session.file_path,
                        first_message |-> session.first_message,
                        summary       |-> session.summary,
                        file_mtime    |-> mtimeUnix,
                        doc_length    |-> docLength,
                        content       |-> content]) @@ d.sessions]

\* a faulty variant: the rows of the session stay
DeleteTermsKeepsRows(d, id) == d

\* DELETE FROM term_index WHERE session_id = ?
DeleteTerms(d, id) ==
    [d EXCEPT !.term_index =
        [k \in { k \in DOMAIN d.term_index : k[2] # id } |-> d.term_index[k]]]

\* a faulty variant: the average is computed by an integer division
StatsOfIntegerAvg(rows) ==
    LET totalDocs   == Cardinality(DOMAIN rows)
        totalLength == SumOver(DOMAIN rows, [id \in DOMAIN rows |-> rows[id].doc_length])
    IN  [total_docs     |-> totalDocs,
         avg_doc_length |-> IF totalDocs > 0
                            THEN [num |-> totalLength \div totalDocs, den |-> 1]
                            ELSE ZeroAvg]

\* updateStats: SELECT COUNT(*), COALESCE(SUM(doc_length), 0) FROM sessions
\* and the two UPDATEs of search_stats
StatsOf(rows) ==
    LET totalDocs   == Cardinality(DOMAIN rows)
        totalLength == SumOver(DOMAIN rows, [id \in DOMAIN rows |-> rows[id].doc_length])
    IN  [total_docs     |-> totalDocs,
         avg_doc_length |-> IF totalDocs > 0
                            THEN [num |-> totalLength, den |-> totalDocs]
                            ELSE ZeroAvg]

updateStats(d) ==
    [d EXCEPT !.total_docs     = StatsOf(d.sessions).total_docs,
              !.avg_doc_length = StatsOf(d.sessions).avg_doc_length]

\* a faulty variant: the statements were not run inside the transaction
AfterRollbackKeepsWrites(committed, working) == working

\* defer tx.Rollback(): what the database holds after a transaction that
\* did not commit
AfterRollback(committed, working) == committed

\* tx.Commit(): what the database holds after a commit
AfterCommit(committed, working) == working

\* a faulty variant: the comparison of the modification times is not strict
NeedsReindexNotStrict(d, disk, sessionID, filePath) ==
    IF sessionID \notin DOMAIN d.sessions
    THEN [needs |-> TRUE, err |-> FALSE]
    ELSE IF ~disk[filePath].exists
         THEN [needs |-> FALSE, err |-> TRUE]
         ELSE [needs |-> Unix(disk[filePath].mtime) >= d.sessions[sessionID].file_mtime,
               err   |-> FALSE]

\* NeedsReindex(sessionID, filePath): [needs, err]
NeedsReindex(d, disk, sessionID, filePath) ==
    IF sessionID \notin DOMAIN d.sessions
    THEN [needs |-> TRUE, err |-> FALSE]
    ELSE IF ~disk[filePath].exists
         THEN [needs |-> FALSE, err |-> TRUE]
         ELSE [needs |-> Unix(disk[filePath].mtime) > d.sessions[sessionID].file_mtime,
               err   |-> FALSE]

\* getDocumentFrequencies: term -> COUNT(DISTINCT session_id)
getDocumentFrequencies(d, terms) ==
    LET present == { t \in Range(terms) : \E k \in DOMAIN d.term_index : k[1] = t }
    IN  [t \in present |-> Cardinality({ k[2] : k \in { k \in DOMAIN d.term_index : k[1] = t } })]

\* getTermFrequencies: term -> term_frequency for one document
getTermFrequencies(d, sessionID, terms) ==
    [t \in { t \in Range(terms) : <<t, sessionID>> \in DOMAIN d.term_index }
        |-> d.term_index[<<t, sessionID>>]]

\* a faulty variant: the project_path filter is left out of the query
CandidatesNoProjectFilter(d, queryTerms, source, projectPath) ==
    { id \in DOMAIN d.sessions :
        /\ \E t \in Range(queryTerms) : <<t, id>> \in DOMAIN d.term_index
        /\ (source # "" => d.sessions[id].source = source) }

\* the rows of the SELECT DISTINCT ... JOIN term_index ... WHERE of Search
Candidates(d, queryTerms, source, projectPath) ==
    { id \in DOMAIN d.sessions :
        /\ \E t \in Range(queryTerms) : <<t, id>> \in DOMAIN d.term_index
        /\ (source # "" => d.sessions[id].source = source)
        /\ (projectPath # <<>> => d.sessions[id].project_path = projectPath) }

\* one SearchResult (the snippet is not modelled)
SearchResult(d, id, queryTerms, docFreqs) ==
    [session |-> [id           |-> id,
                  source       |-> d.sessions[id].source,
                  project_path |-> d.sessions[id].project_path,
                  file_path    |-> d.sessions[id].file_path],
     score   |-> Score(queryTerms, getTermFrequencies(d, id, queryTerms),
                       d.sessions[id].doc_length, docFreqs,
                       d.avg_doc_length, d.total_docs)]

Swap(r, i, j) == [r EXCEPT ![i] = r[j], ![j] = r[i]]

\* the inner loop of the sort: for j := i + 1; j < len(results); j++
\* (SortInnerAscending is a faulty variant: its comparison is reversed)
RECURSIVE SortInner(_, _, _)
RECURSIVE SortInnerAscending(_, _, _)
SortInnerAscending(r, i, j) ==
    IF j > Len(r) THEN r
    ELSE SortInnerAscending(IF Greater(r[i].score, r[j].score) THEN Swap(r, i, j) ELSE r,
                            i, j + 1)

SortInner(r, i, j) ==
    IF j > Len(r) THEN r
    ELSE SortInner(IF Greater(r[j].score, r[i].score) THEN Swap(r, i, j) ELSE r,
                   i, j + 1)

\* the outer loop of the sort: for i := 0; i < len(results); i++
RECURSIVE SortFrom(_, _)
SortFrom(r, i) ==
    IF i > Len(r) THEN r ELSE SortFrom(SortInner(r, i, i + 1), i + 1)

SortByScore(results) == SortFrom(results, 1)

\* if limit > 0 && len(results) > limit { results = results[:limit] }
ApplyLimit(results, limit) ==
    IF limit > 0 /\ Len(results) > limit THEN SubSeq(results, 1, limit) ELSE results

\* the results before the sort, for the order in which the rows come back
Unsorted(d, query, source, projectPath, rowOrder) ==
    LET queryTerms == Tokenize(query)
        docFreqs   == getDocumentFrequencies(d, queryTerms)
    IN  [i \in 1..Len(rowOrder) |-> SearchResult(d, rowOrder[i], queryTerms, docFreqs)]

\* a faulty variant: a query without terms gives an empty list, not an error
SearchNoTermsIsEmpty(d, query, source, projectPath, limit, rowOrder) ==
    [err     |-> FALSE,
     results |-> ApplyLimit(SortByScore(Unsorted(d, query, source, projectPath, rowOrder)),
                            limit)]

\* Search(query, source, projectPath, limit): [err, results]; the database
\* returns the candidate rows in the order rowOrder
Search(d, query, source, projectPath, limit, rowOrder) ==
    IF Len(Tokenize(query)) = 0
    THEN [err |-> TRUE, results |-> <<>>]
    ELSE [err     |-> FALSE,
          results |-> ApplyLimit(SortByScore(Unsorted(d, query, source, projectPath, rowOrder)),
                                 limit)]

\* the orders in which the database may return the candidate rows
RowOrders(d, query, source, projectPath) ==
    Perms(Candidates(d, Tokenize(query), source, projectPath))

(***************************************************************************)
(* The state.                                                              *)
(*   disk     the session artifacts: [exists, mtime (ticks), ver]          *)
(*   db       the committed content of the index database                 *)
(*   writer   the handler whose transaction holds the write lock, or None  *)
(*   tx       the uncommitted content seen by the writer's transaction     *)
(*   hs       per handler: its position in the search_sessions call and    *)
(*            the locals of indexSessions / IndexSession                   *)
(*   calls    tool calls started;  touches  changes made to the disk       *)
(*   workers  the handlers the transport runs requests on                  *)
(*   lastIndexed, lastById                                                 *)
(*            history: for each (source, id) what its last successful      *)
(*            IndexSession was given and the modification time its stat    *)
(*            observed; for each id the (source, id) indexed last          *)
(*                                                                         *)
(* To keep the state space small a behaviour either serves its requests    *)
(* one at a time while the assistants write their files, or has two        *)
(* requests in flight over a disk that does not change.                    *)
(***************************************************************************)
VARIABLES disk, db, writer, tx, hs, calls, touches, workers, lastIndexed, lastById

vars == <<disk, db, writer, tx, hs, calls, touches, workers, lastIndexed, lastById>>

Handlers == {"h1", "h2"}

\* the source arguments of a call: none, a registered one, an unknown one
SourceArgs == {"", "codex", "cursor"}

ProjectArgs == {<<>>, P_p}

\* "", one that tokenizes to nothing, a one-term and a two-term query
Queries == { <<>>, <<"x", "!">>, <<"G", "o">>, <<"d", "b", " ", "a", "i">> }

\* the query arguments of a call of the tool
QueryArgs == { <<>>, <<"x", "!">>, <<"G", "o">> }

LimitArgs == {0, 1}

\* the limits Search itself accepts (0 = no limit)
Limits == {0, 1, 2}

Key(session) == <<session.source, session.id>>

NoSession ==
    [id |-> None, source |-> None, project_path |-> <<>>, file_path |-> None,
     timestamp |-> 0, first_message |-> <<>>, summary |-> <<>>]

\* the reply of a tool other than search_sessions
NoReply == [tool |-> None]

Idle ==
    [pc |-> "idle", source |-> "", projectPath |-> <<>>,
     adaptersLeft |-> {}, adapter |-> None, sessionsLeft |-> <<>>,
     session |-> NoSession, content |-> <<>>, mtimeUnix |-> 0, mtimeSeen |-> 0,
     idxResult |-> None, searched |-> FALSE, err |-> FALSE, results |-> <<>>,
     reply |-> NoReply, cancelled |-> FALSE]

Init ==
    /\ disk = [f \in Files |-> [exists |-> f \in StartFiles, mtime |-> 0, ver |-> 0]]
    /\ db = EmptyDb
    /\ writer = None
    /\ tx = EmptyDb
    /\ hs = [h \in Handlers |-> Idle]
    /\ calls = 0
    /\ touches = 0
    /\ workers \in {{"h1"}, Handlers}
    /\ lastIndexed = EmptyMap
    /\ lastById = EmptyMap

(***************************************************************************)
(* The environment: the assistants write and remove their session files.   *)
(***************************************************************************)
\* The model lets them do so between two calls of the handler and between
\* the read of a session (GetSession) and the stat of its file.
Quiet == \A h \in Handlers : hs[h].pc \in {"idle", "index"}

\* a file is written: its content changes and its modification time grows
Touch(f) ==
    /\ touches < MaxTouch
    /\ Cardinality(workers) = 1
    /\ Quiet
    /\ disk[f].exists
    /\ \E m \in (disk[f].mtime + 1)..MaxMtime :
          disk' = [disk EXCEPT ![f].mtime = m,
                               ![f].ver = IF @ < MaxVer THEN @ + 1 ELSE @]
    /\ touches' = touches + 1
    /\ UNCHANGED <<db, writer, tx, hs, calls, workers, lastIndexed, lastById>>

Remove(f) ==
    /\ touches < MaxTouch
    /\ Cardinality(workers) = 1
    /\ Quiet
    /\ disk[f].exists
    /\ disk' = [disk EXCEPT ![f].exists = FALSE]
    /\ touches' = touches + 1
    /\ UNCHANGED <<db, writer, tx, hs, calls, workers, lastIndexed, lastById>>

(***************************************************************************)
(* cmd/ai-sessions/main.go: the search_sessions handler.                   *)
(***************************************************************************)
\* indexSessions: the adapters to query
AdaptersToQuery(source) ==
    IF source # ""
    THEN IF source \in Adapters THEN {source} ELSE {}
    ELSE Adapters

\* where the loop over the sessions goes after one session
NextPc(rest) == IF rest = <<>> THEN "adapters" ELSE "sessions"

\* the handler is called and checks the query.  The handlers are alike: h1
\* is taken to serve the first call.  The query and the limit
\* are read again by Search only; the model draws them there.
StartSearch(h) ==
    /\ h \in workers
    /\ h = "h2" => calls > 0
    /\ hs[h].pc = "idle"
    /\ calls < MaxCalls
    /\ \E source \in SourceArgs, projectPath \in ProjectArgs, query \in QueryArgs :
          hs' = [hs EXCEPT ![h] =
                    IF query = <<>>
                    THEN [Idle EXCEPT !.pc = "done", !.err = TRUE]
                    ELSE [Idle EXCEPT !.pc = "adapters",
                                      !.source = source,
                                      !.projectPath = projectPath,
                                      !.adaptersLeft = AdaptersToQuery(source)]]
    /\ calls' = calls + 1
    /\ UNCHANGED <<disk, db, writer, tx, touches, workers, lastIndexed, lastById>>

\* for _, adapter := range adaptersToQuery: adapter.ListSessions(projectPath, 0)
\* When ListSessions returns an error the loop logs it and continues with
\* the next adapter.  The claude adapter returns one when its projects
\* directory cannot be read (claude.go:115-118); the codex adapter skips
\* what it cannot read and returns no error.  The locals of the loop body
\* do not outlive an iteration.
ListAdapter(h) ==
    /\ hs[h].pc = "adapters"
    /\ hs[h].adaptersLeft # {}
    /\ \E a \in hs[h].adaptersLeft :
       \E failed \in (IF a = "claude" THEN BOOLEAN ELSE {FALSE}) :
          LET list == IF failed THEN <<>> ELSE ListSessions(a, hs[h].projectPath, disk)
          IN  hs' = [hs EXCEPT ![h].adapter = a,
                               ![h].adaptersLeft = @ \ {a},
                               ![h].sessionsLeft = list,
                               ![h].idxResult = None,
                               ![h].session = NoSession,
                               ![h].content = <<>>,
                               ![h].mtimeUnix = 0,
                               ![h].mtimeSeen = 0,
                               ![h].pc = NextPc(list)]
    /\ UNCHANGED <<disk, db, writer, tx, calls, touches, workers, lastIndexed, lastById>>

\* for _, session := range sessions: cache.NeedsReindex(session.ID, session.FilePath)
CheckSession(h) ==
    /\ hs[h].pc = "sessions"
    /\ LET s    == Head(hs[h].sessionsLeft)
           rest == Tail(hs[h].sessionsLeft)
           nr   == NeedsReindex(db, disk, s.id, s.file_path)
       IN  hs' = [hs EXCEPT ![h].sessionsLeft = rest,
                            ![h].idxResult = None,
                            ![h].content = <<>>,
                            ![h].mtimeUnix = 0,
                            ![h].mtimeSeen = 0,
                            ![h].session = IF nr.err \/ ~nr.needs THEN NoSession ELSE s,
                            ![h].pc = IF nr.err \/ ~nr.needs THEN NextPc(rest) ELSE "get"]
    /\ UNCHANGED <<disk, db, writer, tx, calls, touches, workers, lastIndexed, lastById>>

\* adapter.GetSession(session.ID, 0, 100000) and the content builder
GetSessionStep(h) ==
    /\ hs[h].pc = "get"
    /\ LET g == GetSession(hs[h].adapter, hs[h].session.id, disk)
       IN  hs' = [hs EXCEPT ![h].content = IF g.err THEN <<>>
                                           ELSE BuildContent(hs[h].session, g.messages),
                            ![h].session = IF g.err THEN NoSession ELSE @,
                            ![h].pc = IF g.err THEN NextPc(hs[h].sessionsLeft) ELSE "index"]
    /\ UNCHANGED <<disk, db, writer, tx, calls, touches, workers, lastIndexed, lastById>>

(***************************************************************************)
(* search/cache.go: IndexSession.  Its statements work on tx; the other    *)
(* connections read db.  Three of its points are visible to the rest of    *)
(* the system: the stat of the file, the first write (which takes the      *)
(* write lock of the database) and the end of the transaction.             *)
(***************************************************************************)
IdxPcs == {"index", "insert", "commit"}

\* the statements of the transaction, in order, up to a stage (0..4)
Statements(d, session, mtimeUnix, content, stage) ==
    LET tokens    == Tokenize(content)
        termFreqs == TermFrequency(tokens)
        inserted  == InsertOrReplaceSession(d, session, mtimeUnix, Len(tokens), content)
        deleted   == DeleteTerms(inserted, session.id)
        indexed   == [deleted EXCEPT !.term_index =
                         [k \in { <<t, session.id>> : t \in DOMAIN termFreqs }
                             |-> termFreqs[k[1]]] @@ deleted.term_index]
    IN  CASE stage = 0 -> d
          [] stage = 1 -> inserted
          [] stage = 2 -> deleted
          [] stage = 3 -> indexed
          [] OTHER     -> updateStats(indexed)

\* a faulty variant: the error of IndexSession ends the pass and the call
AbortEndsPass(h, working) ==
    /\ db' = AfterRollback(db, working)
    /\ writer' = IF writer = h THEN None ELSE writer
    /\ tx' = IF writer = h THEN EmptyDb ELSE tx
    /\ hs' = [hs EXCEPT ![h].pc = "done", ![h].err = TRUE,
                        ![h].idxResult = IF writer = h THEN "rolledback" ELSE "failed"]
    /\ UNCHANGED <<disk, calls, touches, workers, lastIndexed, lastById>>

\* the transaction ends without a commit: IndexSession returns an error,
\* the loop logs it and continues
Abort(h, working) ==
    /\ db' = AfterRollback(db, working)
    /\ writer' = IF writer = h THEN None ELSE writer
    /\ tx' = IF writer = h THEN EmptyDb ELSE tx
    /\ hs' = [hs EXCEPT ![h].pc = NextPc(hs[h].sessionsLeft),
                        ![h].idxResult = IF writer = h THEN "rolledback" ELSE "failed"]
    /\ UNCHANGED <<disk, calls, touches, workers, lastIndexed, lastById>>

\* a faulty variant: the session file is removed once it has been read
IdxStatRemovesFile(h) ==
    /\ hs[h].pc = "index"
    /\ LET f == hs[h].session.file_path
       IN  /\ disk[f].exists
           /\ hs' = [hs EXCEPT ![h].pc = "insert",
                               ![h].mtimeUnix = Unix(disk[f].mtime),
                               ![h].mtimeSeen = disk[f].mtime]
           /\ disk' = [disk EXCEPT ![f].exists = FALSE]
           /\ UNCHANGED <<db, writer, tx, calls, touches, workers, lastIndexed, lastById>>

\* c.db.Begin(); Tokenize(content); os.Stat(session.FilePath)
IdxStat(h) ==
    /\ hs[h].pc = "index"
    /\ LET f == hs[h].session.file_path
       IN  IF ~disk[f].exists
           THEN Abort(h, db)
           ELSE /\ hs' = [hs EXCEPT ![h].pc = "insert",
                                    ![h].mtimeUnix = Unix(disk[f].mtime),
                                    ![h].mtimeSeen = disk[f].mtime]
                /\ UNCHANGED <<disk, db, writer, tx, calls, touches, workers, lastIndexed, lastById>>

\* INSERT OR REPLACE, DELETE, the INSERTs of the terms and updateStats: the
\* first write waits for the write lock, which one transaction holds
IdxWrite(h) ==
    /\ hs[h].pc = "insert"
    /\ writer = None
    /\ writer' = h
    /\ tx' = Statements(db, hs[h].session, hs[h].mtimeUnix, hs[h].content, 4)
    /\ hs' = [hs EXCEPT ![h].pc = "commit"]
    /\ UNCHANGED <<disk, db, calls, touches, workers, lastIndexed, lastById>>

\* return tx.Commit()
IdxCommit(h) ==
    /\ hs[h].pc = "commit"
    /\ db' = AfterCommit(db, tx)
    /\ writer' = None
    /\ tx' = EmptyDb
    /\ hs' = [hs EXCEPT ![h].pc = NextPc(hs[h].sessionsLeft), ![h].idxResult = "ok"]
    /\ lastIndexed' = (Key(hs[h].session) :>
                          [session |-> hs[h].session,
                           content |-> hs[h].content,
                           mtime   |-> hs[h].mtimeSeen]) @@ lastIndexed
    /\ lastById' = (hs[h].session.id :> Key(hs[h].session)) @@ lastById
    /\ UNCHANGED <<disk, calls, touches, workers>>

\* a statement fails: Begin before anything is read; the first write when
\* the lock is not granted before the busy timeout; any statement after
\* any number of the earlier ones; Commit
IdxFail(h) ==
    /\ hs[h].pc \in IdxPcs
    /\ \/ /\ hs[h].pc \in {"index", "insert"}
          /\ Abort(h, db)
       \/ /\ hs[h].pc = "commit"
          /\ \E stage \in 1..4 :
                Abort(h, Statements(db, hs[h].session, hs[h].mtimeUnix,
                                    hs[h].content, stage))

(***************************************************************************)
(* The end of the handler: Search on the committed database.               *)
(***************************************************************************)
DoSearch(h) ==
    /\ hs[h].pc = "adapters"
    /\ hs[h].adaptersLeft = {}
    /\ \E query \in QueryArgs \ {<<>>}, limit \in LimitArgs :
       \E rowOrder \in RowOrders(db, query, hs[h].source, hs[h].projectPath) :
          LET r == Search(db, query, hs[h].source, hs[h].projectPath,
                          IF limit = 0 THEN DefaultLimit ELSE limit, rowOrder)
          IN  hs' = [hs EXCEPT ![h].pc = "done", ![h].searched = TRUE,
                               ![h].idxResult = None,
                               ![h].adapter = None,
                               ![h].session = NoSession,
                               ![h].content = <<>>,
                               ![h].mtimeUnix = 0,
                               ![h].mtimeSeen = 0,
                               ![h].err = r.err, ![h].results = r.results]
    /\ UNCHANGED <<disk, db, writer, tx, calls, touches, workers, lastIndexed, lastById>>

\* the handler returns its result (or its error) to the transport
Return(h) ==
    /\ hs[h].pc = "done"
    /\ hs' = [hs EXCEPT ![h] = Idle]
    /\ UNCHANGED <<disk, db, writer, tx, calls, touches, workers, lastIndexed, lastById>>

Next ==
    \/ \E f \in Files : Touch(f)
    \/ \E f \in Files : Remove(f)
    \/ \E h \in Handlers : StartSearch(h)
    \/ \E h \in Handlers : ListAdapter(h)
    \/ \E h \in Handlers : CheckSession(h)
    \/ \E h \in Handlers : GetSessionStep(h)
    \/ \E h \in Handlers : IdxStat(h)
    \/ \E h \in Handlers : IdxWrite(h)
    \/ \E h \in Handlers : IdxCommit(h)
    \/ \E h \in Handlers : IdxFail(h)
    \/ \E h \in Handlers : DoSearch(h)
    \/ \E h \in Handlers : Return(h)

Spec == Init /\ [][Next]_vars

(***************************************************************************)
(* adapters/codex.go: scanRolloutFile, the metadata of one rollout log.    *)
(* A log is its session_meta entry (id, cwd) followed by user messages;    *)
(* compact tells whether its JSON is written without spaces, as the byte   *)
(* search for "role":"user" expects.  A text is a sequence of runes.       *)
(***************************************************************************)
WhiteSpace == {" ", "\n", "\t"}

\* strings.TrimSpace
RECURSIVE TrimLeft(_)
TrimLeft(text) ==
    IF Len(text) > 0 /\ Head(text) \in WhiteSpace THEN TrimLeft(Tail(text)) ELSE text

RECURSIVE TrimRight(_)
TrimRight(text) ==
    IF Len(text) > 0 /\ text[Len(text)] \in WhiteSpace
    THEN TrimRight(SubSeq(text, 1, Len(text) - 1)) ELSE text

TrimSpace(text) == TrimRight(TrimLeft(text))

\* strings.HasPrefix, strings.HasSuffix
HasPrefix(text, prefix) ==
    Len(text) >= Len(prefix) /\ SubSeq(text, 1, Len(prefix)) = prefix

HasSuffix(text, suffix) ==
    Len(text) >= Len(suffix) /\ SubSeq(text, Len(text) - Len(suffix) + 1, Len(text)) = suffix

\* the tags of isSessionPrefix
UserInstructionsOpen == <<"<", "u", "s", "e", "r", "_", "i", "n", "s", "t", "r", "u", "c", "t", "i", "o", "n", "s", ">">>

UserInstructionsClose == <<"<", "/", "u", "s", "e", "r", "_", "i", "n", "s", "t", "r", "u", "c", "t", "i", "o", "n", "s", ">">>

EnvironmentContextOpen == <<"<", "e", "n", "v", "i", "r", "o", "n", "m", "e", "n", "t", "_", "c", "o", "n", "t", "e", "x", "t", ">">>

EnvironmentContextClose == <<"<", "/", "e", "n", "v", "i", "r", "o", "n", "m", "e", "n", "t", "_", "c", "o", "n", "t", "e", "x", "t", ">">>

\* a faulty variant: the tags are compared without lowering the text
isSessionPrefixCaseSensitive(text) ==
    IF text = <<>> THEN FALSE
    ELSE \/ HasPrefix(text, UserInstructionsOpen) /\ HasSuffix(text, UserInstructionsClose)
         \/ HasPrefix(text, EnvironmentContextOpen) /\ HasSuffix(text, EnvironmentContextClose)

\* isSessionPrefix(text), text already trimmed
isSessionPrefix(text) ==
    IF text = <<>> THEN FALSE
    ELSE LET lower == ToLower(text)
         IN  \/ HasPrefix(lower, UserInstructionsOpen) /\ HasSuffix(lower, UserInstructionsClose)
             \/ HasPrefix(lower, EnvironmentContextOpen) /\ HasSuffix(lower, EnvironmentContextClose)

\* strings.Split(text, "\n"): the lines from position i on
RECURSIVE SplitLines(_, _, _)
SplitLines(text, i, current) ==
    IF i > Len(text) THEN <<current>>
    ELSE IF text[i] = "\n" THEN <<current>> \o SplitLines(text, i + 1, <<>>)
    ELSE SplitLines(text, i + 1, Append(current, text[i]))

\* extractFirstLine: the first line that is not blank, trimmed and cut
extractFirstLine(text) ==
    LET lines    == SplitLines(text, 1, <<>>)
        nonBlank == SelectSeq(lines, LAMBDA l : TrimSpace(l) # <<>>)
    IN  IF nonBlank = <<>> THEN <<>>
        ELSE LET trimmed == TrimSpace(nonBlank[1])
             IN  IF ByteLen(trimmed) > FirstLineMax
                 THEN SubSeq(trimmed, 1, FirstLineMax) \o <<".", ".", ".">>
                 ELSE trimmed

\* the loop of scanRolloutFile over the user messages from position i on
RECURSIVE ScanMessages(_, _, _)
ScanMessages(messages, i, info) ==
    IF i > Len(messages) THEN info
    ELSE LET text    == messages[i]
             trimmed == TrimSpace(text)
         IN  IF trimmed = <<>> \/ isSessionPrefix(trimmed)
             THEN ScanMessages(messages, i + 1, info)
             ELSE ScanMessages(messages, i + 1,
                      [info EXCEPT !.user_message_count = @ + 1,
                                   !.first_message =
                                       IF @ = <<>> THEN extractFirstLine(text) ELSE @])

\* scanRolloutFile: [id, cwd, user_message_count, first_message]
scanRolloutFile(log) ==
    LET hasUserMessages == log.compact /\ Len(log.messages) > 0
        info == [id |-> log.id, cwd |-> log.cwd,
                 user_message_count |-> 0, first_message |-> <<>>]
    IN  IF ~hasUserMessages THEN info ELSE ScanMessages(log.messages, 1, info)

\* the user messages of the model: a body of two lines, bare or between an
\* opening and a closing tag in lower or mixed case, with or without
\* white space around it
OpenTags == { <<>>, UserInstructionsOpen, <<"<", "U", "s", "e", "r", "_", "I", "n", "s", "t", "r", "u", "c", "t", "i", "o", "n", "s", ">">>,
              EnvironmentContextOpen }

CloseTags == { <<>>, UserInstructionsClose, <<"<", "/", "E", "n", "v", "i", "r", "o", "n", "m", "e", "n", "t", "_", "C", "o", "n", "t", "e", "x", "t", ">">> }

Pads == { <<>>, <<" ">> }

MessageTexts ==
    { pad \o open \o <<"h", "i", "\n", "y", "o">> \o close \o pad :
        pad \in Pads, open \in OpenTags, close \in CloseTags }

RECURSIVE SeqsUpTo(_, _)
SeqsUpTo(S, n) ==
    IF n = 0 THEN { <<>> }
    ELSE SeqsUpTo(S, n - 1) \cup
         { Append(q, x) : q \in { r \in SeqsUpTo(S, n - 1) : Len(r) = n - 1 }, x \in S }

Logs ==
    [id : {"y"}, cwd : {P_p}, compact : BOOLEAN, messages : SeqsUpTo(MessageTexts, MaxLogLen)]

ScanInit ==
    /\ disk = [f \in Files |-> [exists |-> f \in StartFiles, mtime |-> 0, ver |-> 0]]
    /\ db = EmptyDb
    /\ writer = None
    /\ tx = EmptyDb
    /\ \E log \in Logs :
          hs = [h \in Handlers |->
                   IF h = "h1"
                   THEN [Idle EXCEPT !.reply = [tool |-> "scan", log |-> log, scanned |-> FALSE]]
                   ELSE Idle]
    /\ calls = 0
    /\ touches = 0
    /\ workers = {"h1"}
    /\ lastIndexed = EmptyMap
    /\ lastById = EmptyMap

\* info, err := c.scanRolloutFile(file, "")
ScanRollout(h) ==
    /\ hs[h].pc = "idle"
    /\ hs[h].reply.tool = "scan"
    /\ hs' = [hs EXCEPT ![h].pc = "done",
                        ![h].reply = [tool |-> "scan", log |-> hs[h].reply.log, scanned |-> TRUE,
                                      info |-> scanRolloutFile(hs[h].reply.log)]]
    /\ UNCHANGED <<disk, db, writer, tx, calls, touches, workers, lastIndexed, lastById>>

ScanNext == ScanRollout("h1")

ScanSpec == ScanInit /\ [][ScanNext]_vars

(***************************************************************************)
(* search/cache.go: GetSnippet.  A Go string is a sequence of bytes; a     *)
(* byte is <<r, k>>, the k-th byte of the rune r.  Positions are 0-based   *)
(* byte offsets, as in the code.                                           *)
(***************************************************************************)
RECURSIVE Bytes(_)
Bytes(text) ==
    IF text = <<>> THEN <<>>
    ELSE [k \in 1..RuneLen(Head(text)) |-> <<Head(text), k>>] \o Bytes(Tail(text))

\* strings.Index(s, substr): the first offset of substr in s, or -1
Index(s, substr) ==
    LET at == { p \in 0..(Len(s) - Len(substr)) : SubSeq(s, p + 1, p + Len(substr)) = substr }
    IN  IF at = {} THEN 0 - 1 ELSE CHOOSE p \in at : \A o \in at : p <= o

Ellipsis == Bytes(<<".", ".", ".">>)

\* GetSnippet(content, queryTerms, maxLength): the snippet, with the locals
\* firstPos, matchedTerm, the window before its adjustment (window) and
\* after it (start, end); panic when content[start:end] has start > end
GetSnippet(text, queryTerms, maxLength0) ==
    LET maxLength    == IF maxLength0 = 0 THEN DefaultSnippetLen ELSE maxLength0
        content      == Bytes(text)
        contentLower == Bytes(ToLower(text))
        \* content[i] == ' ' || content[i] == '\n'
        IsBoundary(b) == b = <<" ", 1>> \/ b = <<"\n", 1>>
        \* for _, term := range queryTerms: the earliest position and its term
        RECURSIVE FirstMatch(_, _, _)
        FirstMatch(terms, firstPos, matchedTerm) ==
            IF terms = <<>> THEN [firstPos |-> firstPos, matchedTerm |-> matchedTerm]
            ELSE LET term == Bytes(Head(terms))
                     pos  == Index(contentLower, term)
                 IN  IF pos # 0 - 1 /\ pos < firstPos
                     THEN FirstMatch(Tail(terms), pos, term)
                     ELSE FirstMatch(Tail(terms), firstPos, matchedTerm)
        \* for i := start; i > 0 && i > start-50; i--
        RECURSIVE AdjustStart(_, _)
        AdjustStart(start, i) ==
            IF ~(i > 0 /\ i > start - BoundaryReach) THEN start
            ELSE IF IsBoundary(content[i + 1]) THEN i + 1
            ELSE AdjustStart(start, i - 1)
        \* for i := end; i < len(content) && i < end+50; i++
        RECURSIVE AdjustEnd(_, _)
        AdjustEnd(end, i) ==
            IF ~(i < Len(content) /\ i < end + BoundaryReach) THEN end
            ELSE IF IsBoundary(content[i + 1]) THEN i
            ELSE AdjustEnd(end, i + 1)
        m            == FirstMatch(queryTerms, Len(content), <<>>)
        halfLength   == maxLength \div 2
        start0       == IF m.firstPos - halfLength < 0 THEN 0 ELSE m.firstPos - halfLength
        end0         == IF m.firstPos + Len(m.matchedTerm) + halfLength > Len(content)
                        THEN Len(content)
                        ELSE m.firstPos + Len(m.matchedTerm) + halfLength
        start        == IF start0 > 0 THEN AdjustStart(start0, start0) ELSE start0
        end          == IF end0 < Len(content) THEN AdjustEnd(end0, end0) ELSE end0
    IN  IF m.firstPos = Len(content)
        THEN [found |-> FALSE, panic |-> FALSE, firstPos |-> m.firstPos,
              matchedTerm |-> <<>>, window |-> <<0, 0>>, start |-> 0, end |-> 0,
              snippet |-> IF Len(content) <= maxLength THEN content
                          ELSE SubSeq(content, 1, maxLength) \o Ellipsis]
        ELSE [found |-> TRUE, panic |-> start > end, firstPos |-> m.firstPos,
              matchedTerm |-> m.matchedTerm, window |-> <<start0, end0>>,
              start |-> start, end |-> end,
              snippet |-> IF start > end THEN <<>>
                          ELSE (IF start > 0 THEN Ellipsis ELSE <<>>)
                                 \o SubSeq(content, start + 1, end)
                                 \o (IF end < Len(content) THEN Ellipsis ELSE <<>>)]

\* GetSnippet is called with a content of ASCII letters, spaces and Kelvin
\* signs, one or two terms and a maxLength
SnippetInit ==
    /\ disk = [f \in Files |-> [exists |-> f \in StartFiles, mtime |-> 0, ver |-> 0]]
    /\ db = EmptyDb
    /\ writer = None
    /\ tx = EmptyDb
    /\ \E content \in SeqsUpTo({"a", "b", "A", " ", "K_SIGN"}, MaxContentLen),
          queryTerms \in { << <<"a", "b">> >>, << <<"b">>, <<"a", "b">> >> },
          maxLength \in 0..MaxSnippetLen :
          hs = [h \in Handlers |->
                   IF h = "h1"
                   THEN [Idle EXCEPT !.reply = [tool |-> "snippet", content |-> content,
                                                queryTerms |-> queryTerms,
                                                maxLength |-> maxLength, returned |-> FALSE]]
                   ELSE Idle]
    /\ calls = 0
    /\ touches = 0
    /\ workers = {"h1"}
    /\ lastIndexed = EmptyMap
    /\ lastById = EmptyMap

\* snippet := GetSnippet(content, queryTerms, 300) of Search, with the
\* arguments of the tests
SnippetCall(h) ==
    /\ hs[h].pc = "idle"
    /\ hs[h].reply.tool = "snippet"
    /\ LET r == hs[h].reply
       IN  hs' = [hs EXCEPT ![h].pc = "done",
                            ![h].reply = [tool |-> "snippet", content |-> r.content,
                                          queryTerms |-> r.queryTerms,
                                          maxLength |-> r.maxLength, returned |-> TRUE,
                                          out |-> GetSnippet(r.content, r.queryTerms, r.maxLength)]]
    /\ UNCHANGED <<disk, db, writer, tx, calls, touches, workers, lastIndexed, lastById>>

SnippetSpec == SnippetInit /\ [][SnippetCall("h1")]_vars

(***************************************************************************)
(* search/bm25.go: Tokenize and TermFrequency applied to a text.           *)
(***************************************************************************)
TokenInit ==
    /\ disk = [f \in Files |-> [exists |-> f \in StartFiles, mtime |-> 0, ver |-> 0]]
    /\ db = EmptyDb
    /\ writer = None
    /\ tx = EmptyDb
    /\ \E text \in SeqsUpTo({"a", "B", "1", " ", "e_acute"}, MaxTextLen) :
          hs = [h \in Handlers |->
                   IF h = "h1"
                   THEN [Idle EXCEPT !.reply = [tool |-> "tokenize", text |-> text,
                                                returned |-> FALSE]]
                   ELSE Idle]
    /\ calls = 0
    /\ touches = 0
    /\ workers = {"h1"}
    /\ lastIndexed = EmptyMap
    /\ lastById = EmptyMap

\* tokens := Tokenize(text); freqs := TermFrequency(tokens)
TokenizeCall(h) ==
    /\ hs[h].pc = "idle"
    /\ hs[h].reply.tool = "tokenize"
    /\ LET r == hs[h].reply
       IN  hs' = [hs EXCEPT ![h].pc = "done",
                            ![h].reply = [tool |-> "tokenize", text |-> r.text,
                                          returned |-> TRUE,
                                          tokens |-> Tokenize(r.text),
                                          freqs |-> TermFrequency(Tokenize(r.text))]]
    /\ UNCHANGED <<disk, db, writer, tx, calls, touches, workers, lastIndexed, lastById>>

TokenSpec == TokenInit /\ [][TokenizeCall("h1")]_vars

(***************************************************************************)
(* cmd/ai-sessions/main.go list_sessions over sessions whose timestamps    *)
(* may be equal or zero.  The files and their timestamps are fixed; the    *)
(* handler is called twice with the same arguments.  The adapters are the  *)
(* values of a Go map, which range visits in an order that changes from    *)
(* one loop to the next; sort.Slice on the few sessions of the model is an *)
(* insertion sort, which leaves equal elements in the order it got them.   *)
(***************************************************************************)
\* sort.Slice(sessions, Timestamp.After) on a short slice: newest first,
\* equal timestamps in the order of the input
SortSliceByTimestamp(sessions) ==
    LET n == Len(sessions)
        p == CHOOSE q \in Perms(1..n) :
                 \A i, j \in 1..n :
                     i < j => \/ sessions[q[i]].timestamp > sessions[q[j]].timestamp
                              \/ /\ sessions[q[i]].timestamp = sessions[q[j]].timestamp
                                 /\ q[i] < q[j]
    IN  [i \in 1..n |-> sessions[p[i]]]

\* adapter.ListSessions("", limit) when the files carry the timestamps
\* stamps; os.ReadDir, filepath.Glob and filepath.Walk give the files by name
ListSessionsStamped(adapter, limit, stamps) ==
    LET IsOf(f)  == Artifact[f].source = adapter
        files    == SelectSeq(<<"F1", "F2", "F3", "F4">>, IsOf)
        sessions == [i \in 1..Len(files) |->
                        [id |-> Artifact[files[i]].id, source |-> adapter,
                         file_path |-> files[i], timestamp |-> stamps[files[i]]]]
        sorted   == SortSliceByTimestamp(sessions)
    IN  IF adapter = "codex" THEN sorted
        ELSE IF limit > 0 /\ Len(sorted) > limit THEN SubSeq(sorted, 1, limit) ELSE sorted

\* the handler of list_sessions for the source "", with the adapters
\* visited in the given order
MergeSessions(order, limit, stamps) ==
    LET L      == IF limit = 0 THEN DefaultLimit ELSE limit
        \* for _, adapter := range adaptersToQuery { allSessions = append(...) }
        RECURSIVE AppendLists(_)
        AppendLists(rest) ==
            IF rest = <<>> THEN <<>>
            ELSE ListSessionsStamped(Head(rest), L, stamps) \o AppendLists(Tail(rest))
        sorted == SortSliceByTimestamp(AppendLists(order))
    IN  IF L > 0 /\ Len(sorted) > L THEN SubSeq(sorted, 1, L) ELSE sorted

MergeInit ==
    /\ disk = [f \in Files |-> [exists |-> TRUE, mtime |-> 0, ver |-> 0]]
    /\ db = EmptyDb
    /\ writer = None
    /\ tx = EmptyDb
    /\ \E stamps \in [Files -> 0..MaxStamp], limit \in 0..MaxListLimit :
          hs = [h \in Handlers |->
                   IF h = "h1"
                   THEN [Idle EXCEPT !.reply = [tool |-> "merge", stamps |-> stamps,
                                                limit |-> limit, replies |-> <<>>]]
                   ELSE Idle]
    /\ calls = 0
    /\ touches = 0
    /\ workers = {"h1"}
    /\ lastIndexed = EmptyMap
    /\ lastById = EmptyMap

\* one call of list_sessions; its reply is kept next to the earlier ones
MergeCall(h) ==
    /\ hs[h].reply.tool = "merge"
    /\ calls < MaxCalls
    /\ \E order \in Perms(Adapters) :
          hs' = [hs EXCEPT ![h].reply.replies =
                    Append(@, MergeSessions(order, hs[h].reply.limit, hs[h].reply.stamps))]
    /\ calls' = calls + 1
    /\ UNCHANGED <<disk, db, writer, tx, touches, workers, lastIndexed, lastById>>

MergeSpec == MergeInit /\ [][MergeCall("h1")]_vars

(***************************************************************************)
(* adapters/opencode.go: a session kept in several files.  The session is  *)
(* described by session/<project>/ses_<id>.json, which is the FilePath of  *)
(* the listed Session; its messages are the files message/<id>/msg_*.json. *)
(* In this specification disk[OpencodeFile] is that session: mtime is the  *)
(* modification time of ses_<id>.json, ver is the state of the message     *)
(* files.  search_sessions runs to its end between the writes.             *)
(***************************************************************************)
OpencodeFile == "F1"

OpencodeInit ==
    /\ disk = [f \in Files |-> [exists |-> f = OpencodeFile, mtime |-> 0, ver |-> 0]]
    /\ db = EmptyDb
    /\ writer = None
    /\ tx = EmptyDb
    /\ hs = [h \in Handlers |-> Idle]
    /\ calls = 0
    /\ touches = 0
    /\ workers = {"h1"}
    /\ lastIndexed = EmptyMap
    /\ lastById = EmptyMap

\* opencode writes a message file of the session; ses_<id>.json stays as it
\* is
AddMessageFile ==
    /\ \A h \in Handlers : hs[h].pc = "idle"
    /\ disk[OpencodeFile].ver < MaxVer
    /\ disk' = [disk EXCEPT ![OpencodeFile].ver = @ + 1]
    /\ UNCHANGED <<db, writer, tx, hs, calls, touches, workers, lastIndexed, lastById>>

\* opencode rewrites ses_<id>.json (a new title, say)
WriteSessionFile ==
    /\ \A h \in Handlers : hs[h].pc = "idle"
    /\ \E m \in (disk[OpencodeFile].mtime + 1)..MaxMtime :
          disk' = [disk EXCEPT ![OpencodeFile].mtime = m]
    /\ UNCHANGED <<db, writer, tx, hs, calls, touches, workers, lastIndexed, lastById>>

\* search_sessions(query, source "opencode", project_path): indexSessions
\* over the one session, which is of the project P_p, then Search
OpencodeSearch(h) ==
    /\ hs[h].pc = "idle"
    /\ calls < MaxCalls
    /\ \E query \in (QueryArgs \ {<<>>}) \cup {<<"a", "i">>}, projectPath \in ProjectArgs :
          LET \* readAllMessages: the contents of msg_*.json, by name
              messages == FileMessages(OpencodeFile, disk[OpencodeFile].ver)
              \* listProjectSessions: the Session built from ses_<id>.json
              session == [id            |-> "o",
                          source        |-> "opencode",
                          project_path  |-> P_p,
                          file_path     |-> OpencodeFile,
                          timestamp     |-> 1,
                          first_message |-> messages[1],
                          summary       |-> <<>>]
              nr      == NeedsReindex(db, disk, session.id, session.file_path)
              content == BuildContent(session, messages)
              indexed == nr.needs /\ ~nr.err
              after   == IF indexed
                         THEN AfterCommit(db, Statements(db, session,
                                                         Unix(disk[OpencodeFile].mtime),
                                                         content, 4))
                         ELSE db
          IN  /\ db' = after
              /\ lastIndexed' = IF indexed
                                THEN (Key(session) :>
                                         [session |-> session, content |-> content,
                                          mtime |-> disk[OpencodeFile].mtime]) @@ lastIndexed
                                ELSE lastIndexed
              /\ lastById' = IF indexed THEN (session.id :> Key(session)) @@ lastById
                             ELSE lastById
              /\ \E rowOrder \in RowOrders(after, query, "opencode", projectPath) :
                    LET r == Search(after, query, "opencode", projectPath, DefaultLimit,
                                    rowOrder)
                    IN  hs' = [hs EXCEPT ![h] =
                                  [Idle EXCEPT !.pc = "done", !.source = "opencode",
                                               !.projectPath = projectPath,
                                               !.searched = TRUE, !.err = r.err,
                                               !.results = r.results,
                                               !.reply = [tool |-> "opencode",
                                                          query |-> query,
                                                          needsReindex |-> nr.needs,
                                                          messages |-> messages]]]
    /\ calls' = calls + 1
    /\ UNCHANGED <<disk, writer, tx, touches, workers>>

OpencodeNext ==
    \/ AddMessageFile
    \/ WriteSessionFile
    \/ OpencodeSearch("h1")
    \/ Return("h1")

OpencodeSpec == OpencodeInit /\ [][OpencodeNext]_vars

(***************************************************************************)
(* The transport cancels a call: the context ctx of the handler is done.   *)
(* The handler of search_sessions does not read ctx and indexSessions is   *)
(* not given it, so no step of the pass depends on the cancellation.       *)
(***************************************************************************)
\* the handler is in its lazy-indexing pass
InPass(h) == hs[h].pc \in {"adapters", "sessions", "get"} \cup IdxPcs

CancelInit ==
    /\ Init
    /\ workers = {"h1"}

\* ctx.Done() is closed while the call is in indexSessions
Cancel(h) ==
    /\ h \in workers
    /\ InPass(h)
    /\ ~hs[h].cancelled
    /\ hs' = [hs EXCEPT ![h].cancelled = TRUE]
    /\ UNCHANGED <<disk, db, writer, tx, calls, touches, workers, lastIndexed, lastById>>

CancelNext ==
    \/ Next
    \/ \E h \in Handlers : Cancel(h)

CancelSpec == CancelInit /\ [][CancelNext]_vars

(***************************************************************************)
(* The index store on its own, as search/cache_test.go drives it: one      *)
(* connection, IndexSession and Search called directly, each call run to   *)
(* its end before the next.  The content is the caller's argument; hs      *)
(* holds the result of the last Search until the index changes.            *)
(***************************************************************************)
CacheInit ==
    /\ Init
    /\ workers = {"h1"}

\* cache.IndexSession(session, content), the whole call
CacheIndexSession(f) ==
    /\ disk[f].exists
    /\ \E ver \in 0..MaxVer :
          LET session == ListedSession(f, <<>>, disk)
              content == BuildContent(session, FileMessages(f, ver))
          IN  /\ db' = AfterCommit(db, Statements(db, session, Unix(disk[f].mtime),
                                                  content, 4))
              /\ lastIndexed' = (Key(session) :>
                                    [session |-> session,
                                     content |-> content,
                                     mtime   |-> disk[f].mtime]) @@ lastIndexed
              /\ lastById' = (session.id :> Key(session)) @@ lastById
              /\ hs' = [hs EXCEPT !["h1"] =
                           [Idle EXCEPT !.reply =
                               [tool |-> "index", id |-> session.id, content |-> content,
                                reindexed |-> session.id \in DOMAIN db.sessions,
                                before |-> IF session.id \in DOMAIN db.sessions
                                           THEN db.sessions[session.id].content
                                           ELSE <<>>]]]
    /\ UNCHANGED <<disk, writer, tx, calls, touches, workers>>

\* cache.Search(query, source, projectPath, limit), the whole call
CacheSearch(h) ==
    /\ \E query \in Queries \ {<<>>}, source \in {"", "claude", "codex"},
          projectPath \in ProjectArgs, limit \in Limits :
       \E rowOrder \in RowOrders(db, query, source, projectPath) :
          LET r == Search(db, query, source, projectPath, limit, rowOrder)
          IN  hs' = [hs EXCEPT ![h] = [Idle EXCEPT !.pc = "done",
                                                   !.source = source,
                                                   !.projectPath = projectPath,
                                                   !.searched = TRUE,
                                                   !.err = r.err,
                                                   !.results = r.results]]
    /\ UNCHANGED <<disk, db, writer, tx, calls, touches, workers, lastIndexed, lastById>>

CacheNext ==
    \/ \E f \in Files : CacheIndexSession(f)
    \/ CacheSearch("h1")

CacheSpec == CacheInit /\ [][CacheNext]_vars

(***************************************************************************)
(* cmd/ai-sessions/main.go: the tools that read the session files and do   *)
(* not use the index.  Each call runs to its end; hs holds its reply until *)
(* the handler returns it, and the files change between the calls.         *)
(***************************************************************************)
\* the source and session_id arguments: none, registered ones, unknown ones
ToolSourceArgs == Adapters \cup {"", "cursor"}

IdArgs == SessionIds \cup {"", "w"}

PageArgs == (0 - 1)..MaxPage

PageSizeArgs == 0..MaxPageSize

\* the limit argument of list_sessions: negative, none, 1..MaxListLimit
ListLimitArgs == (0 - 1)..MaxListLimit

\* every file of the model exists and the handler serves one call at a time
ToolInit ==
    /\ disk = [f \in Files |-> [exists |-> TRUE, mtime |-> 0, ver |-> 0]]
    /\ db = EmptyDb
    /\ writer = None
    /\ tx = EmptyDb
    /\ hs = [h \in Handlers |-> Idle]
    /\ calls = 0
    /\ touches = 0
    /\ workers = {"h1"}
    /\ lastIndexed = EmptyMap
    /\ lastById = EmptyMap

ListSessionsCall(h) ==
    /\ hs[h].pc = "idle"
    /\ calls < MaxCalls
    /\ \E source \in ToolSourceArgs, projectPath \in ProjectArgs, limit \in ListLimitArgs :
          LET r == ListSessionsTool(source, projectPath, limit, disk)
          IN  hs' = [hs EXCEPT ![h] =
                        [Idle EXCEPT !.pc = "done",
                                     !.reply =
                                        [tool        |-> "list_sessions",
                                         source      |-> source,
                                         projectPath |-> projectPath,
                                         limit       |-> limit,
                                         err         |-> r.err,
                                         sessions    |-> r.sessions]]]
    /\ calls' = calls + 1
    /\ UNCHANGED <<disk, db, writer, tx, touches, workers, lastIndexed, lastById>>

GetSessionCall(h) ==
    /\ hs[h].pc = "idle"
    /\ calls < MaxCalls
    /\ \E sessionID \in IdArgs, source \in ToolSourceArgs,
          page \in PageArgs, pageSize \in PageSizeArgs :
          LET g == GetSessionTool(sessionID, source, page, pageSize, disk)
          IN  hs' = [hs EXCEPT ![h] =
                        [Idle EXCEPT !.pc = "done",
                                     !.reply =
                                        [tool     |-> "get_session",
                                         id       |-> sessionID,
                                         source   |-> source,
                                         page     |-> page,
                                         pageSize |-> pageSize,
                                         err      |-> g.err,
                                         crashed  |-> g.crashed,
                                         messages |-> g.messages]]]
    /\ calls' = calls + 1
    /\ UNCHANGED <<disk, db, writer, tx, touches, workers, lastIndexed, lastById>>

ToolNext ==
    \/ \E f \in Files : Touch(f)
    \/ \E f \in Files : Remove(f)
    \/ GetSessionCall("h1")
    \/ ListSessionsCall("h1")
    \/ Return("h1")

ToolSpec == ToolInit /\ [][ToolNext]_vars

(***************************************************************************)
(* search/cache.go: Search read by read, beside another connection that    *)
(* indexes (a second handler or a second server on the same cache file).   *)
(* getStats, getDocumentFrequencies and the candidate query are separate   *)
(* statements outside any transaction.  While the rows of the candidate    *)
(* query are open the database is read-locked: getTermFrequencies runs for *)
(* each row before a writer can commit.  reply holds the locals of Search  *)
(* and, as history, the index state each read saw.                         *)
(***************************************************************************)
SnapInit ==
    /\ Init
    /\ workers = {"h1"}

\* the other connection: cache.IndexSession(session, content), committed.
\* Its commits are counted in calls, with the calls of Search.
SnapIndexSession(f) ==
    /\ disk[f].exists
    /\ hs["h1"].pc # "rows"
    /\ calls < MaxCalls
    /\ \E ver \in 0..MaxVer :
          LET session == ListedSession(f, <<>>, disk)
              content == BuildContent(session, FileMessages(f, ver))
          IN  /\ db' = AfterCommit(db, Statements(db, session, Unix(disk[f].mtime),
                                                  content, 4))
              /\ lastIndexed' = (Key(session) :>
                                    [session |-> session,
                                     content |-> content,
                                     mtime   |-> disk[f].mtime]) @@ lastIndexed
              /\ lastById' = (session.id :> Key(session)) @@ lastById
    /\ calls' = calls + 1
    /\ UNCHANGED <<disk, writer, tx, hs, touches, workers>>

\* queryTerms := Tokenize(query); stats, err := c.getStats()
SnapStats(h) ==
    /\ hs[h].pc = "idle"
    /\ calls < MaxCalls
    /\ \E query \in Queries \ {<<>>} :
          hs' = [hs EXCEPT ![h] =
                    IF Len(Tokenize(query)) = 0
                    THEN [Idle EXCEPT !.pc = "done", !.err = TRUE, !.searched = TRUE]
                    ELSE [Idle EXCEPT !.pc = "stats",
                                      !.reply = [tool       |-> "search",
                                                 query      |-> query,
                                                 queryTerms |-> Tokenize(query),
                                                 totalDocs  |-> db.total_docs,
                                                 avgDocLength |-> db.avg_doc_length,
                                                 docFreqs   |-> EmptyMap,
                                                 rows       |-> <<>>,
                                                 seen       |-> <<db>>]]]
    /\ calls' = calls + 1
    /\ UNCHANGED <<disk, db, writer, tx, touches, workers, lastIndexed, lastById>>

\* docFreqs, err := c.getDocumentFrequencies(queryTerms)
SnapDocFreqs(h) ==
    /\ hs[h].pc = "stats"
    /\ hs' = [hs EXCEPT ![h].pc = "docfreqs",
                        ![h].reply.docFreqs = getDocumentFrequencies(db, hs[h].reply.queryTerms),
                        ![h].reply.seen = Append(@, db)]
    /\ UNCHANGED <<disk, db, writer, tx, calls, touches, workers, lastIndexed, lastById>>

\* rows, err := c.db.Query(sqlQuery, args...): the candidate rows, in the
\* order the database returns them
SnapRows(h) ==
    /\ hs[h].pc = "docfreqs"
    /\ \E rowOrder \in Perms(Candidates(db, hs[h].reply.queryTerms, "", <<>>)) :
          hs' = [hs EXCEPT ![h].pc = "rows",
                           ![h].reply.rows = rowOrder,
                           ![h].reply.seen = Append(@, db)]
    /\ UNCHANGED <<disk, db, writer, tx, calls, touches, workers, lastIndexed, lastById>>

\* for rows.Next(): getTermFrequencies and scorer.Score for each row; then
\* the sort and the limit
SnapScore(h) ==
    /\ hs[h].pc = "rows"
    /\ LET r        == hs[h].reply
           unsorted == [i \in 1..Len(r.rows) |->
                          [session |-> [id           |-> r.rows[i],
                                        source       |-> db.sessions[r.rows[i]].source,
                                        project_path |-> db.sessions[r.rows[i]].project_path,
                                        file_path    |-> db.sessions[r.rows[i]].file_path],
                           score   |-> Score(r.queryTerms,
                                             getTermFrequencies(db, r.rows[i], r.queryTerms),
                                             db.sessions[r.rows[i]].doc_length, r.docFreqs,
                                             r.avgDocLength, r.totalDocs)]]
       IN  hs' = [hs EXCEPT ![h].pc = "done", ![h].searched = TRUE,
                            ![h].results = ApplyLimit(SortByScore(unsorted), DefaultLimit)]
    /\ UNCHANGED <<disk, db, writer, tx, calls, touches, workers, lastIndexed, lastById>>

SnapNext ==
    \/ \E f \in Files : SnapIndexSession(f)
    \/ SnapStats("h1")
    \/ SnapDocFreqs("h1")
    \/ SnapRows("h1")
    \/ SnapScore("h1")
    \/ Return("h1")

SnapSpec == SnapInit /\ [][SnapNext]_vars

(***************************************************************************)
(* Properties.                                                             *)
(***************************************************************************)
\* the last successful IndexSession of the row that id has in the index
LastOf(id) == lastIndexed[lastById[id]]

\* the filters the properties try Search with
SourceFilters == {"", "claude", "codex"}

ProjectFilters == {<<>>, P_p, <<"p">>}

ValidQueries == { q \in Queries : Len(Tokenize(q)) > 0 }

C2_StaleOnAnyLaterMtime ==
    /\ \A id \in DOMAIN lastById :
          LET last == LastOf(id)
              f    == last.session.file_path
          IN  (disk[f].exists /\ disk[f].mtime > last.mtime)
                  => NeedsReindex(db, disk, id, f).needs
    /\ \A id \in SessionIds \ DOMAIN db.sessions : \A f \in Files :
          NeedsReindex(db, disk, id, f).needs

\* C3: in a lazy-indexing pass GetSession is called for a listed session
\* exactly when the session is absent from the index or its file's
\* modification time is strictly greater than the one recorded when it was
\* indexed: none for an unchanged session, one more after the time advances.
Stale(s) ==
    \/ s.id \notin DOMAIN db.sessions
    \/ db.sessions[s.id].source # s.source
    \/ /\ disk[s.file_path].exists
       /\ disk[s.file_path].mtime > LastOf(s.id).mtime

C3_GetSessionIffStale ==
    [][\A h \in Handlers :
          (hs[h].pc = "sessions" /\ hs'[h] # hs[h])
              => (hs'[h].pc = "get" <=> Stale(Head(hs[h].sessionsLeft)))]_vars

\* C4: a session (source, id) is in the index in every state after its
\* first successful IndexSession and in none before; no later operation
\* removes or replaces it; Search returns indexed sessions only.
C4_IndexedSessionsStay ==
    /\ \A k \in DOMAIN lastIndexed :
          /\ k[2] \in DOMAIN db.sessions
          /\ db.sessions[k[2]].source = k[1]
    /\ \A id \in DOMAIN db.sessions :
          <<db.sessions[id].source, id>> \in DOMAIN lastIndexed
    /\ \A h \in Handlers : \A i \in 1..Len(hs[h].results) :
          Key(hs[h].results[i].session) \in DOMAIN lastIndexed

\* C5: for every row of sessions, file_mtime is the modification time (in
\* epoch seconds) that the file had when the last successful IndexSession
\* of that row looked at it.
C5_MtimeIsTheObservedOne ==
    \A id \in DOMAIN db.sessions :
        /\ id \in DOMAIN lastById
        /\ db.sessions[id].file_mtime = Unix(LastOf(id).mtime)
        /\ db.sessions[id].file_path = LastOf(id).session.file_path

\* a row was indexed again after its file went into a later second
C5_Witness ==
    \E id \in DOMAIN db.sessions :
        /\ db.sessions[id].file_mtime > 0
        /\ LastOf(id).mtime = disk[db.sessions[id].file_path].mtime

\* C6: in every committed state total_docs is the number of rows of
\* sessions and avg_doc_length is the sum of their doc_length divided by
\* total_docs (0 without rows), whatever IndexSession calls ran, failed or
\* interleaved.
C6_StatsMatchRows ==
    LET rows == db.sessions
        sum  == SumOver(DOMAIN rows, [id \in DOMAIN rows |-> rows[id].doc_length])
    IN  /\ db.total_docs = Cardinality(DOMAIN rows)
        /\ db.avg_doc_length.den > 0
        /\ IF DOMAIN rows = {}
           THEN db.avg_doc_length.num = 0
           ELSE db.avg_doc_length.num * db.total_docs = sum * db.avg_doc_length.den

\* two rows of different lengths, two handlers, and one IndexSession that
\* was rolled back
C6_Witness ==
    /\ workers = Handlers
    /\ Cardinality(DOMAIN db.sessions) = 2
    /\ \E i, j \in DOMAIN db.sessions : db.sessions[i].doc_length # db.sessions[j].doc_length
    /\ \E h \in Handlers : hs[h].idxResult \in {"failed", "rolledback"}

\* C7: a call of IndexSession that returns an error leaves sessions,
\* term_index and search_stats as they were: no step of IndexSession other
\* than its successful Commit changes the database.
C7_FailedIndexChangesNothing ==
    [][\A h \in Handlers :
          (hs[h].pc \in IdxPcs /\ hs'[h] # hs[h] /\ hs'[h].idxResult # "ok")
              => db' = db]_vars

\* an IndexSession failed after it had written, over a non-empty index
C7_Witness ==
    /\ DOMAIN db.sessions # {}
    /\ \E h \in Handlers : hs[h].idxResult = "rolledback"

\* C8: after a successful IndexSession(s, content) every Search whose query
\* shares a token with content and whose filters are empty or equal to the
\* values of s returns s, until s is indexed again.
C8_IndexedIsFound ==
    \A k \in DOMAIN lastIndexed :
        LET s == lastIndexed[k].session
            c == lastIndexed[k].content
        IN  \A q \in ValidQueries :
                (Range(Tokenize(q)) \cap Range(Tokenize(c)) # {})
                    => \A source \in {"", s.source} :
                       \A projectPath \in {<<>>, s.project_path} :
                       \A rowOrder \in RowOrders(db, q, source, projectPath) :
                          \E r \in Range(Search(db, q, source, projectPath, 0, rowOrder).results) :
                              Key(r.session) = k

\* C9: for every index state, query, filters and limit the list Search
\* returns is in non-increasing order of score; with limit > 0 it is the
\* first limit entries of the sorted candidates, with limit = 0 all of them.
Sorted(results) ==
    \A i, j \in 1..Len(results) :
        i < j => GreaterEq(results[i].score, results[j].score)

C9_SortedAndTruncated ==
    \A q \in ValidQueries, source \in SourceFilters, projectPath \in ProjectFilters :
    \A rowOrder \in RowOrders(db, q, source, projectPath) :
        LET all == Search(db, q, source, projectPath, 0, rowOrder).results
        IN  /\ Sorted(all)
            /\ { all[i].session.id : i \in 1..Len(all) }
                   = Candidates(db, Tokenize(q), source, projectPath)
            /\ Len(all) = Cardinality(Candidates(db, Tokenize(q), source, projectPath))
            /\ \A limit \in Limits \ {0} :
                  LET r == Search(db, q, source, projectPath, limit, rowOrder).results
                  IN  /\ Len(r) = IF Len(all) < limit THEN Len(all) ELSE limit
                      /\ \A i \in 1..Len(r) : r[i] = all[i]

\* a handler got two results with different scores, the better one first
C9_Witness ==
    \E h \in Handlers :
        /\ hs[h].searched
        /\ Len(hs[h].results) = 2
        /\ Greater(hs[h].results[1].score, hs[h].results[2].score)

\* C10: every session Search returns has the source of a non-empty source
\* filter and the project_path of a non-empty project_path filter; a
\* session that differs in a filtered field is not returned.
C10_ResultsMatchFilters ==
    \A q \in ValidQueries, source \in SourceFilters, projectPath \in ProjectFilters :
    \A rowOrder \in RowOrders(db, q, source, projectPath) :
    \A r \in Range(Search(db, q, source, projectPath, 0, rowOrder).results) :
        /\ source # "" => r.session.source = source
        /\ projectPath # <<>> => r.session.project_path = projectPath

\* a handler searched one project and got a result while the index held a
\* row of another project
C10_Witness ==
    \E h \in Handlers :
        /\ hs[h].searched
        /\ hs[h].projectPath = P_p
        /\ Len(hs[h].results) > 0
        /\ \E id \in DOMAIN db.sessions : db.sessions[id].project_path # P_p

\* C11: Search with a query that has no token (empty, punctuation only,
\* single-character words only) fails and changes nothing in the index;
\* search_sessions with an empty query fails before any indexing: the
\* handler goes from the call straight to its error.
NoTokenQueries == { <<>>, <<"x", "!">>, <<"!", " ">>, <<"a", " ", "b">> }

C11_NoTermsFails ==
    [][\A h \in Handlers :
          /\ (hs[h].pc = "adapters" /\ hs'[h].pc = "done")
                => /\ db' = db
                   /\ hs'[h].searched
                   /\ hs'[h].err => hs'[h].results = <<>>
                   /\ \A q \in NoTokenQueries :
                         LET r == Search(db, q, hs[h].source, hs[h].projectPath,
                                         DefaultLimit, <<>>)
                         IN  r.err /\ r.results = <<>>
          /\ (hs[h].pc = "idle" /\ hs'[h].pc = "done")
                => /\ db' = db
                   /\ hs'[h].err
                   /\ ~hs'[h].searched
          /\ (hs[h].pc = "idle" /\ hs'[h].pc # "idle")
                => hs'[h].pc \in {"done", "adapters"}]_vars

\* a search over a non-empty index failed in Search itself
C11_Witness ==
    \E h \in Handlers :
        /\ hs[h].pc = "done"
        /\ hs[h].searched
        /\ hs[h].err
        /\ DOMAIN db.sessions # {}

\* the artifact of an adapter that carries a session id, if there is one
ArtifactsOf(adapter, id) ==
    { f \in Files : Artifact[f].source = adapter /\ Artifact[f].id = id /\ disk[f].exists }

\* C12: for an existing session with n messages, GetSession with a page
\* outside the existing pages (page * page_size >= n, or page < 0) returns
\* an empty list, no error and no crash, in the adapters and through
\* get_session.
C12_OutOfRangePageIsEmpty ==
    /\ \A adapter \in Adapters, id \in SessionIds :
       \A f \in ArtifactsOf(adapter, id) :
       \A page \in PageArgs, pageSize \in 1..MaxPageSize :
          (page * pageSize >= Len(FileMessages(f, disk[f].ver)) \/ page < 0)
              => LET g == GetSessionPage(adapter, id, page, pageSize, disk)
                 IN  ~g.err /\ ~g.crashed /\ g.messages = <<>>
    /\ \A h \in Handlers :
          LET r == hs[h].reply
          IN  (/\ r.tool = "get_session"
               /\ ArtifactsOf(r.source, r.id) # {}
               /\ r.page < 0)
                  => ~r.err /\ ~r.crashed /\ r.messages = <<>>

\* C13: for an unchanged session with n messages and a page_size > 0 the
\* pages 0, 1, 2, ... partition the messages: page k holds the messages
\* k*page_size .. min((k+1)*page_size, n)-1 in file order, at most
\* page_size of them, and the pages together are the whole list.  It is
\* stated of the files as they are whenever no call is in progress.
RECURSIVE PagesFrom(_, _, _, _)
PagesFrom(adapter, id, pageSize, k) ==
    IF k > MaxPage THEN <<>>
    ELSE GetSessionPage(adapter, id, k, pageSize, disk).messages
             \o PagesFrom(adapter, id, pageSize, k + 1)

C13_PagesPartition ==
    (\A h \in Handlers : hs[h].pc = "idle") =>
    \A adapter \in Adapters, id \in SessionIds :
    \A f \in ArtifactsOf(adapter, id) :
    \A pageSize \in 1..MaxPageSize :
        LET all == FileMessages(f, disk[f].ver)
            n   == Len(all)
        IN  /\ \A k \in 0..MaxPage :
                  LET g    == GetSessionPage(adapter, id, k, pageSize, disk)
                      from == k * pageSize
                      to   == IF (k + 1) * pageSize < n THEN (k + 1) * pageSize ELSE n
                  IN  /\ ~g.err /\ ~g.crashed
                      /\ Len(g.messages) <= pageSize
                      /\ Len(g.messages) = IF to > from THEN to - from ELSE 0
                      /\ \A i \in 1..Len(g.messages) : g.messages[i] = all[from + i]
            /\ PagesFrom(adapter, id, pageSize, 0) = all

\* get_session returned the second, shorter page of a session
C13_Witness ==
    \E h \in Handlers :
        LET r == hs[h].reply
        IN  /\ r.tool = "get_session"
            /\ ~r.err /\ ~r.crashed
            /\ r.page = 1
            /\ r.pageSize = 2
            /\ Len(r.messages) = 1

C15_UnknownSourceIsError ==
    \A h \in Handlers :
        /\ (hs[h].pc = "done" /\ hs[h].source \notin Adapters \cup {""}) => hs[h].err
        /\ (hs[h].reply.tool = "get_session" /\ hs[h].reply.source \notin Adapters)
              => hs[h].reply.err
        /\ (hs[h].reply.tool = "list_sessions" /\ hs[h].reply.source \notin Adapters \cup {""})
              => hs[h].reply.err


\* the files list_sessions has to choose from: those of the selected
\* adapters that exist and belong to the project asked for
SelectedFiles(source, projectPath) ==
    { f \in Files : /\ disk[f].exists
                    /\ (source = "" \/ Artifact[f].source = source)
                    /\ (projectPath = <<>> \/ Artifact[f].project = projectPath) }

C17_FailuresDoNotStopThePass ==
    [][ \A h \in Handlers :
          (InPass(h) /\ hs'[h] # hs[h]) =>
             /\ hs'[h].pc = "done" =>
                   /\ hs[h].pc = "adapters" /\ hs[h].adaptersLeft = {}
                   /\ hs'[h].searched
             /\ hs'[h].pc # "idle"
             /\ (hs[h].pc = "adapters" /\ hs[h].adaptersLeft # {}) =>
                   /\ hs'[h].adaptersLeft = hs[h].adaptersLeft \ {hs'[h].adapter}
                   /\ hs'[h].adapter \in hs[h].adaptersLeft
                   /\ hs'[h].pc = NextPc(hs'[h].sessionsLeft)
             /\ hs[h].pc = "sessions" =>
                   /\ hs'[h].sessionsLeft = Tail(hs[h].sessionsLeft)
                   /\ hs'[h].adaptersLeft = hs[h].adaptersLeft
                   /\ hs'[h].pc \in {"get", NextPc(hs'[h].sessionsLeft)}
             /\ hs[h].pc \in {"get"} \cup IdxPcs =>
                   /\ hs'[h].sessionsLeft = hs[h].sessionsLeft
                   /\ hs'[h].adaptersLeft = hs[h].adaptersLeft
                   /\ hs'[h].pc \in IdxPcs \cup {NextPc(hs[h].sessionsLeft)}
                   /\ hs'[h].idxResult \in {"failed", "rolledback"} =>
                         hs'[h].pc = NextPc(hs[h].sessionsLeft)
    ]_vars

\* one handler alone: the indexing of the codex session y has failed (its
\* file is there and it is not in the index) and the pass has gone on to
\* index the session x of the same adapter
C17_Witness ==
    /\ workers = {"h1"}
    /\ hs["h1"].adapter = "codex"
    /\ hs["h1"].idxResult = "ok"
    /\ hs["h1"].session.file_path = "F2"
    /\ disk["F3"].exists
    /\ "y" \notin DOMAIN db.sessions
    /\ "x" \in DOMAIN db.sessions


\* C18: the results of one Search are those of a search on one state of the
\* index: the statistics, the document frequencies, the candidate rows and
\* their term frequencies all come from one of the states the call has read.
C18_OneSnapshot ==
    \A h \in Handlers :
        LET r == hs[h].reply
        IN  (hs[h].pc = "done" /\ r.tool = "search") =>
               \E k \in 1..Len(r.seen) :
               \E rowOrder \in RowOrders(r.seen[k], r.query, "", <<>>) :
                  hs[h].results =
                      Search(r.seen[k], r.query, "", <<>>, DefaultLimit, rowOrder).results


\* C19: once the transport has cancelled a search_sessions call that is in
\* its lazy-indexing pass, the loop sees it before it takes the next
\* session: the step at the head of the loop ends the pass instead of
\* checking, reading or indexing a further session; and no step of a
\* cancelled call takes a committed session out of the index.
C19_CancelStopsThePass ==
    [][ \A h \in Handlers :
          (hs[h].cancelled /\ hs'[h] # hs[h]) =>
             /\ hs[h].pc = "sessions" =>
                   /\ hs'[h].pc = "done"
                   /\ hs'[h].sessionsLeft = hs[h].sessionsLeft
             /\ DOMAIN db.sessions \subseteq DOMAIN db'.sessions
    ]_vars


\* text, trimmed and lowered, is an opening tag, some body and the closing
\* tag of the same name
WrappedIn(text, open, close) ==
    LET lower == ToLower(TrimSpace(text))
    IN  \E n \in 0..Len(lower) :
           /\ Len(lower) = Len(open) + n + Len(close)
           /\ lower = open \o SubSeq(lower, Len(open) + 1, Len(open) + n) \o close

Wrapped(text) ==
    \/ WrappedIn(text, UserInstructionsOpen, UserInstructionsClose)
    \/ WrappedIn(text, EnvironmentContextOpen, EnvironmentContextClose)

\* C20: a Codex user message wrapped in <user_instructions> or
\* <environment_context> tags, in any case and with white space around it,
\* is not counted in user_message_count and is never the first_message: the
\* count is that of the other messages and the first message is the first
\* line of the first of them; a log that holds only wrapped messages has
\* count 0 and an empty first_message, and still reports its id and cwd.
C20_PrefixMessagesAreSkipped ==
    \A h \in Handlers :
        LET r == hs[h].reply
        IN  (r.tool = "scan" /\ r.scanned) =>
               LET others == SelectSeq(r.log.messages, LAMBDA m : ~Wrapped(m))
               IN  /\ r.info.user_message_count <= Len(others)
                   /\ r.log.compact => r.info.user_message_count = Len(others)
                   /\ r.info.first_message # <<>> =>
                         /\ others # <<>>
                         /\ r.info.first_message = TrimSpace(SplitLines(others[1], 1, <<>>)[1])
                   /\ (r.log.compact /\ others # <<>>) => r.info.first_message # <<>>
                   /\ others = <<>> =>
                         /\ r.info.user_message_count = 0
                         /\ r.info.first_message = <<>>
                   /\ r.info.id = r.log.id
                   /\ r.info.cwd = r.log.cwd

\* a log of two messages, the first wrapped in mixed-case tags with white
\* space around it, the second not wrapped: one message is counted
C20_Witness ==
    LET r == hs["h1"].reply
    IN  /\ r.tool = "scan" /\ r.scanned
        /\ Len(r.log.messages) = 2
        /\ Wrapped(r.log.messages[1])
        /\ r.log.messages[1] # ToLower(TrimSpace(r.log.messages[1]))
        /\ ~Wrapped(r.log.messages[2])
        /\ r.info.user_message_count = 1
        /\ r.info.first_message # <<>>


\* C21: no step of a tool call creates, changes or removes a session file:
\* every step in which a handler moves, a call starts, or the index or a
\* transaction changes leaves the files as they are.  The files change in
\* the steps of the assistants only, and a call changes nothing persistent
\* but the index database.
C21_ToolsLeaveFilesAlone ==
    [][ (hs' # hs \/ calls' # calls \/ db' # db \/ tx' # tx \/ writer' # writer)
            => disk' = disk ]_vars

\* a call has indexed sessions and searched, and every file is as it was
\* when the server started
C21_Witness ==
    /\ touches = 0
    /\ \A f \in Files : disk[f] = [exists |-> f \in StartFiles, mtime |-> 0, ver |-> 0]
    /\ Cardinality(DOMAIN db.sessions) = 2
    /\ \E h \in Handlers : hs[h].pc = "done" /\ hs[h].searched /\ ~hs[h].err


\* C22: when GetSnippet finds a term, the text it returns without the
\* ellipsis markers lies inside the centered window
\* [match - maxLength/2, match + len(term) + maxLength/2] clamped to the
\* content: the adjustment to word boundaries moves start forward and end
\* back only.
C22_SnippetInsideWindow ==
    \A h \in Handlers :
        LET r == hs[h].reply
        IN  (r.tool = "snippet" /\ r.returned /\ r.out.found) =>
               /\ ~r.out.panic
               /\ r.out.start >= r.out.window[1]
               /\ r.out.end <= r.out.window[2]

\* C23: when some term occurs in the lower-cased content, the snippet
\* contains the term that occurs earliest (in any case), begins with "..."
\* exactly when its window starts after byte 0 and ends with "..." exactly
\* when its window ends before the end of the content.
C23_SnippetShowsTheMatch ==
    \A h \in Handlers :
        LET r == hs[h].reply
            lower == Bytes(ToLower(r.content))
            occ   == { i \in 1..Len(r.queryTerms) :
                          Index(lower, Bytes(r.queryTerms[i])) # 0 - 1 }
            \* the terms that occur at the earliest offset
            earliest ==
                { Bytes(r.queryTerms[i]) : i \in { i \in occ : \A j \in occ :
                      Index(lower, Bytes(r.queryTerms[i]))
                          <= Index(lower, Bytes(r.queryTerms[j])) } }
            \* the snippet in lower case (a byte of a cut rune stays as it is)
            shown == [i \in 1..Len(r.out.snippet) |->
                         IF RuneLen(r.out.snippet[i][1]) = 1
                         THEN <<ToLowerRune(r.out.snippet[i][1]), 1>>
                         ELSE r.out.snippet[i]]
        IN  (r.tool = "snippet" /\ r.returned /\ earliest # {}) =>
               /\ r.out.found /\ ~r.out.panic
               /\ \E t \in earliest : Index(shown, t) # 0 - 1
               /\ HasPrefix(r.out.snippet, Ellipsis) <=> r.out.start > 0
               /\ HasSuffix(r.out.snippet, Ellipsis) <=> r.out.end < Len(Bytes(r.content))

\* C24: Tokenize returns, in input order, exactly the maximal runs of
\* letters or digits of the lower-cased text that are at least 2 characters
\* long; every token has 2 characters or more, all of them in [a-z0-9]; and
\* TermFrequency maps each token to the number of its occurrences.
C24_TokensAreLongAlnumRuns ==
    \A h \in Handlers :
        LET r == hs[h].reply
            \* the maximal runs of letters or digits of a text, in order
            RECURSIVE RunsFrom(_, _)
            RunsFrom(text, current) ==
                IF text = <<>> THEN (IF current = <<>> THEN <<>> ELSE <<current>>)
                ELSE IF IsLetterOrDigit(Head(text))
                     THEN RunsFrom(Tail(text), Append(current, Head(text)))
                     ELSE (IF current = <<>> THEN <<>> ELSE <<current>>)
                             \o RunsFrom(Tail(text), <<>>)
            Long(run) == Len(run) >= 2
            AsciiAlnum == (LowerRunes \ TwoByteRunes) \cup DigitRunes
        IN  (r.tool = "tokenize" /\ r.returned) =>
               /\ r.tokens = SelectSeq(RunsFrom(ToLower(r.text), <<>>), Long)
               /\ \A i \in 1..Len(r.tokens) :
                     /\ Len(r.tokens[i]) >= 2
                     /\ \A j \in 1..Len(r.tokens[i]) : r.tokens[i][j] \in AsciiAlnum
               /\ DOMAIN r.freqs = Range(r.tokens)
               /\ \A t \in DOMAIN r.freqs :
                     r.freqs[t] = Cardinality({ i \in 1..Len(r.tokens) : r.tokens[i] = t })

\* C25: after IndexSession(s, c2) succeeds for a session that was in the
\* index with the content c1, the term_index rows of s are exactly
\* TermFrequency(Tokenize(c2)) and its doc_length is the number of tokens of
\* c2; no term that occurs only in c1 has a row of s, Search for such a
\* term does not return s, and the sessions table has one row for s.id.
C25_ReindexReplacesTerms ==
    \A h \in Handlers :
        LET r == hs[h].reply
            \* the term_index rows of the session: term -> term_frequency
            rows == [t \in { k[1] : k \in { k \in DOMAIN db.term_index : k[2] = r.id } }
                        |-> db.term_index[<<t, r.id>>]]
        IN  (r.tool = "index" /\ r.reindexed) =>
               /\ r.id \in DOMAIN db.sessions
               /\ db.sessions[r.id].id = r.id
               /\ rows = TermFrequency(Tokenize(r.content))
               /\ db.sessions[r.id].doc_length = Len(Tokenize(r.content))
               /\ \A t \in Range(Tokenize(r.before)) \ Range(Tokenize(r.content)) :
                     /\ <<t, r.id>> \notin DOMAIN db.term_index
                     /\ \A source \in SourceFilters, projectPath \in ProjectFilters :
                        \A rowOrder \in RowOrders(db, t, source, projectPath) :
                        \A res \in Range(Search(db, t, source, projectPath, 0, rowOrder).results) :
                            res.session.id # r.id

\* a session was indexed again with a content that lost a term
C25_Witness ==
    \E h \in Handlers :
        /\ hs[h].reply.tool = "index"
        /\ hs[h].reply.reindexed
        /\ Range(Tokenize(hs[h].reply.before)) \ Range(Tokenize(hs[h].reply.content)) # {}
        /\ Cardinality(DOMAIN db.sessions) > 1


\* C26: whatever the byte-level formatting of the JSON lines of a rollout
\* file, scanRolloutFile reports the id, the cwd, the user_message_count
\* and the first_message that the full parse of the file reports: the fast
\* path is taken only for a log without any user message.
C26_FastPathMatchesFullParse ==
    \A h \in Handlers :
        LET r == hs[h].reply
        IN  (r.tool = "scan" /\ r.scanned) =>
               r.info = ScanMessages(r.log.messages, 1,
                                     [id |-> r.log.id, cwd |-> r.log.cwd,
                                      user_message_count |-> 0, first_message |-> <<>>])


\* C27: for a fixed state of the files, every call of list_sessions with the
\* same arguments returns the same sequence: newest first, the sessions
\* without a timestamp last, and the sessions of equal timestamp in one
\* fixed order that does not depend on the order in which the adapters are
\* visited.
C27_SameListOnEveryCall ==
    \A h \in Handlers :
        LET r == hs[h].reply
        IN  r.tool = "merge" =>
               /\ \A k \in 1..Len(r.replies) : \A i, j \in 1..Len(r.replies[k]) :
                     i < j => r.replies[k][i].timestamp >= r.replies[k][j].timestamp
               /\ \A k, l \in 1..Len(r.replies) : r.replies[k] = r.replies[l]


\* C28: when a session file is written between the read of GetSession and
\* the stat of IndexSession, the index does not settle on the older content
\* with NeedsReindex false for the file as it is: while the file keeps the
\* modification time that the last IndexSession of a session observed and
\* NeedsReindex is false, the indexed content is the content of the file.
C28_NoStaleContentSettles ==
    \A id \in DOMAIN lastById :
        LET last == LastOf(id)
            f    == last.session.file_path
        IN  (/\ disk[f].exists
             /\ disk[f].mtime = last.mtime
             /\ ~NeedsReindex(db, disk, id, f).needs)
                => last.content = BuildContent(last.session, FileMessages(f, disk[f].ver))


\* C29: the project_path of a row of the index is the same whether its
\* session was indexed by a search without project_path or by a search
\* with project_path = P: it is the project of the session's file, so a
\* later search with project_path = P finds the sessions of P.
C29_ProjectPathIsTheSame ==
    \A id \in DOMAIN db.sessions :
        db.sessions[id].project_path = Artifact[db.sessions[id].file_path].project


\* C30: after a message file is added to a split-file session that is in
\* the index, the next search_sessions call over it finds NeedsReindex true
\* and indexes it again: a search for a term of the messages as they are at
\* the call returns the session.
C30_NewMessageIsFound ==
    \A h \in Handlers :
        LET r == hs[h].reply
        IN  (r.tool = "opencode" /\ ~hs[h].err) =>
               \A t \in Range(Tokenize(r.query)) :
                   (\E i \in 1..Len(r.messages) : t \in Range(Tokenize(r.messages[i])))
                       => \E i \in 1..Len(hs[h].results) : hs[h].results[i].session.id = "o"

====
